---- MODULE Spec2Model ----
(***************************************************************************)
(* Client side of the SSH connection engine of go.crypto/ssh:              *)
(*   - ClientConn.handshake / clientWithAddress (client.go)                *)
(*   - algorithm negotiation and the Diffie-Hellman range check            *)
(*   - the channel send window                                             *)
(*   - the channel table, mainLoop, handleChanOpen and sendGlobalRequest   *)
(*   - the certificate codec (certs.go)                                    *)
(* The handshake is one sequential process; pc is its position in          *)
(* ClientConn.handshake.  The peer is nondeterministic: every readPacket   *)
(* may fail or return any packet of a small set, every write may fail.     *)
(***************************************************************************)
EXTENDS Integers, Sequences, FiniteSets, TLC

VARIABLES
    config,       \* ClientConfig and the dial address of the ClientConn
    pc,           \* position in clientWithAddress / handshake
    err,          \* error returned by handshake ("" while none)
    wire,         \* packets transport.writePacket has written, in order
    rx,           \* types of the packets transport.readPacket has returned
    magics,       \* handshakeMagics: which of the four items are captured
    serverKexInit,\* <<>> or <<the server's kexInitMsg>>
    kexAlgo,      \* negotiated key exchange algorithm
    hostKeyAlgo,  \* negotiated host key algorithm
    transport,    \* per-direction algorithms, key state, closed flag
    kex,          \* locals of kexDH / kexECDH while it runs
    result,       \* <<>> or <<kexResult>>
    verified,     \* verifyHostKeySignature has returned nil
    checks,       \* invocations of HostKeyChecker.Check, in order
    authed,       \* outcome of c.authenticate: "", "ok" or "failed"
    conn,         \* what clientWithAddress returned: "pending", "conn", "nil"
    loop,         \* mainLoop goroutine started
    negCall,      \* negotiation harness: the call in progress
    negRet,       \* negotiation harness: its return values
    win,          \* window.win, a uint32 as <<high 16 bits, low 16 bits>>
    winLog,       \* completed add / reserve calls on the window, in order
    waiting,      \* the reserve calls inside w.Wait(): their request, and whether woken
    chans,        \* chanList.chans: per slot 0 (nil) or the channel stored there
    chanState,    \* every clientChan created so far, indexed by creation order
    chanMutex,    \* chanList's mutex: 0 or the task holding it
    taskPc,       \* per task: its position inside newChan / remove
    chanLog,      \* returns of newChan, with the table they were computed on
    loopPc,       \* mainLoop: "idle", "run", "blocked" or "exited"
    exitReason,   \* why mainLoop left its loop ("" while it runs)
    lastPkt,      \* the packet mainLoop read last
    nRead,        \* number of packets mainLoop has read
    out,          \* packets written to the transport after the handshake
    closed,       \* ClientConn.Close has been called by mainLoop's teardown
    fwdQueue,     \* forwards delivered to the forward list entry, in order
    fwdClosed,    \* forwardList.closeAll has run
    grMutex,      \* globalRequest's mutex: 0 or the task holding it
    grPc,         \* per task: its position inside sendGlobalRequest
    response,     \* contents of the channel globalRequest.response
    grLog,        \* returned sendGlobalRequest calls, in order
    codecCall,    \* codec harness: the call in progress
    codecRet      \* codec harness: its return values

hsVars == <<config, pc, err, wire, rx, magics, serverKexInit, kexAlgo, hostKeyAlgo,
            transport, kex, result, verified, checks, authed, conn, loop>>
negVars == <<negCall, negRet>>
winVars == <<win, winLog, waiting>>
chanVars == <<chans, chanState, chanMutex, taskPc, chanLog>>
muxVars == <<loopPc, exitReason, lastPkt, nRead, out, closed, fwdQueue, fwdClosed,
             grMutex, grPc, response, grLog>>
codecVars == <<codecCall, codecRet>>
\* Everything outside the handshake, the negotiation and the window.
restVars == <<chanVars, muxVars, codecVars>>
vars == <<hsVars, negVars, winVars, restVars>>

---------------------------------------------------------------------------
(* Protocol constants                                                      *)

kexAlgoDH1SHA1 == "diffie-hellman-group1-sha1"
kexAlgoDH14SHA1 == "diffie-hellman-group14-sha1"
kexAlgoECDH256 == "ecdh-sha2-nistp256"
kexAlgoECDH384 == "ecdh-sha2-nistp384"
kexAlgoECDH521 == "ecdh-sha2-nistp521"
hostAlgoRSA == "ssh-rsa"
hostAlgoDSA == "ssh-dss"
compressionNone == "none"

supportedKexAlgos ==
    <<kexAlgoECDH256, kexAlgoECDH384, kexAlgoECDH521, kexAlgoDH14SHA1, kexAlgoDH1SHA1>>
supportedHostKeyAlgos == <<hostAlgoRSA>>
supportedCompressions == <<compressionNone>>

\* The default orders and the cipher mode table live in the cipher module.
DefaultCipherOrder == <<"aes128-ctr", "arcfour128">>
DefaultMACOrder == <<"hmac-sha1", "hmac-sha1-96">>
cipherModes == {"aes128-ctr", "aes192-ctr", "arcfour128"}

\* A key exchange name the client may be configured with but cannot run.
foreignKex == "curve25519-sha256@libssh.org"

Range(s) == {s[i] : i \in DOMAIN s}

---------------------------------------------------------------------------
(* Algorithm negotiation                                                   *)

RECURSIVE firstMatch(_, _, _)
\* The nested range loops of findCommonAlgorithm from client index i on.
firstMatch(clientAlgos, serverAlgos, i) ==
    IF i > Len(clientAlgos) THEN [algo |-> "", ok |-> FALSE]
    ELSE IF \E j \in DOMAIN serverAlgos : clientAlgos[i] = serverAlgos[j]
         THEN [algo |-> clientAlgos[i], ok |-> TRUE]
         ELSE firstMatch(clientAlgos, serverAlgos, i + 1)

RECURSIVE firstMatchServerOrder(_, _, _)
firstMatchServerOrder(clientAlgos, serverAlgos, j) ==
    IF j > Len(serverAlgos) THEN [algo |-> "", ok |-> FALSE]
    ELSE IF \E i \in DOMAIN clientAlgos : clientAlgos[i] = serverAlgos[j]
         THEN [algo |-> serverAlgos[j], ok |-> TRUE]
         ELSE firstMatchServerOrder(clientAlgos, serverAlgos, j + 1)

\* Mutant of findCommonAlgorithm: the two loops exchanged (server preference wins).
findCommonAlgorithmServerFirst(clientAlgos, serverAlgos) ==
    firstMatchServerOrder(clientAlgos, serverAlgos, 1)

findCommonAlgorithm(clientAlgos, serverAlgos) ==
    firstMatch(clientAlgos, serverAlgos, 1)

RECURSIVE firstCipherMatch(_, _, _)
firstCipherMatch(clientCiphers, serverCiphers, i) ==
    IF i > Len(clientCiphers) THEN [algo |-> "", ok |-> FALSE]
    ELSE IF /\ \E j \in DOMAIN serverCiphers : clientCiphers[i] = serverCiphers[j]
            /\ clientCiphers[i] \in cipherModes
         THEN [algo |-> clientCiphers[i], ok |-> TRUE]
         ELSE firstCipherMatch(clientCiphers, serverCiphers, i + 1)

findCommonCipher(clientCiphers, serverCiphers) ==
    firstCipherMatch(clientCiphers, serverCiphers, 1)

\* The transport's per-direction algorithm fields before negotiation.
NoAlgos == [cipherAlgo |-> "", macAlgo |-> "", compressionAlgo |-> ""]

\* Mutant of findAgreedAlgorithms: the result of the last category is ignored.
findAgreedAlgorithmsIgnoreLast(c, s) ==
    LET k  == findCommonAlgorithm(c.KexAlgos, s.KexAlgos)
        h  == findCommonAlgorithm(c.ServerHostKeyAlgos, s.ServerHostKeyAlgos)
        cw == findCommonCipher(c.CiphersClientServer, s.CiphersClientServer)
        cr == findCommonCipher(c.CiphersServerClient, s.CiphersServerClient)
        mw == findCommonAlgorithm(c.MACsClientServer, s.MACsClientServer)
        mr == findCommonAlgorithm(c.MACsServerClient, s.MACsServerClient)
        zw == findCommonAlgorithm(c.CompressionClientServer, s.CompressionClientServer)
        zr == findCommonAlgorithm(c.CompressionServerClient, s.CompressionServerClient)
    IN  [kexAlgo |-> k.algo, hostKeyAlgo |-> h.algo,
         ok |-> k.ok /\ h.ok /\ cw.ok /\ cr.ok /\ mw.ok /\ mr.ok /\ zw.ok,
         writer |-> [cipherAlgo |-> cw.algo, macAlgo |-> mw.algo, compressionAlgo |-> zw.algo],
         reader |-> [cipherAlgo |-> cr.algo, macAlgo |-> mr.algo, compressionAlgo |-> zr.algo]]

\* findAgreedAlgorithms: the eight categories in order, returning at the first
\* failure; the transport fields assigned before that point keep their values.
findAgreedAlgorithms(c, s) ==
    LET k  == findCommonAlgorithm(c.KexAlgos, s.KexAlgos)
        h  == findCommonAlgorithm(c.ServerHostKeyAlgos, s.ServerHostKeyAlgos)
        cw == findCommonCipher(c.CiphersClientServer, s.CiphersClientServer)
        cr == findCommonCipher(c.CiphersServerClient, s.CiphersServerClient)
        mw == findCommonAlgorithm(c.MACsClientServer, s.MACsClientServer)
        mr == findCommonAlgorithm(c.MACsServerClient, s.MACsServerClient)
        zw == findCommonAlgorithm(c.CompressionClientServer, s.CompressionClientServer)
        zr == findCommonAlgorithm(c.CompressionServerClient, s.CompressionServerClient)
        r0 == [kexAlgo |-> k.algo, hostKeyAlgo |-> "", ok |-> FALSE,
               writer |-> NoAlgos, reader |-> NoAlgos]
        r1 == [r0 EXCEPT !.hostKeyAlgo = h.algo]
        r2 == [r1 EXCEPT !.writer.cipherAlgo = cw.algo]
        r3 == [r2 EXCEPT !.reader.cipherAlgo = cr.algo]
        r4 == [r3 EXCEPT !.writer.macAlgo = mw.algo]
        r5 == [r4 EXCEPT !.reader.macAlgo = mr.algo]
        r6 == [r5 EXCEPT !.writer.compressionAlgo = zw.algo]
        r7 == [r6 EXCEPT !.reader.compressionAlgo = zr.algo]
    IN  IF ~k.ok THEN r0
        ELSE IF ~h.ok THEN r1
        ELSE IF ~cw.ok THEN r2
        ELSE IF ~cr.ok THEN r3
        ELSE IF ~mw.ok THEN r4
        ELSE IF ~mr.ok THEN r5
        ELSE IF ~zw.ok THEN r6
        ELSE IF ~zr.ok THEN r7
        ELSE [r7 EXCEPT !.ok = TRUE]

---------------------------------------------------------------------------
(* Diffie-Hellman groups.  The 1024 and 2048 bit primes of                 *)
(* Oakley groups 2 and 14 are scaled down to small moduli.                 *)

dhGroup1P == 5
dhGroup14P == 7

dhGroup1 == [g |-> 2, p |-> dhGroup1P]
dhGroup14 == [g |-> 2, p |-> dhGroup14P]

RECURSIVE Exp(_, _, _)
\* big.Int.Exp(b, e, m) for e >= 0, m > 0: b^e mod m.
Exp(b, e, m) == IF e = 0 THEN 1 % m ELSE (b * Exp(b, e - 1, m)) % m

\* rand.Int(r, max): a uniform value in [0, max).
randInt(max) == 0 .. (max - 1)

\* dhGroup.diffieHellman: Sign() <= 0 or Cmp(p) >= 0 is out of bounds.
diffieHellman(group, theirPublic, myPrivate) ==
    IF theirPublic <= 0 \/ theirPublic >= group.p
    THEN [ok |-> FALSE, K |-> 0]
    ELSE [ok |-> TRUE, K |-> Exp(theirPublic, myPrivate, group.p)]

\* Values of theirPublic around the two ends of the accepted range.
PeerPublics(group) == {-1, 0, 1, 2, group.p - 1, group.p, group.p + 1}

---------------------------------------------------------------------------
(* Client configuration                                                    *)

\* CryptoConfig.kexes / ciphers / macs: nil means the default order; nil is <<>>.
kexes(c) == IF c.KeyExchanges = <<>> THEN supportedKexAlgos ELSE c.KeyExchanges
ciphers(c) == IF c.Ciphers = <<>> THEN DefaultCipherOrder ELSE c.Ciphers
macs(c) == IF c.MACs = <<>> THEN DefaultMACOrder ELSE c.MACs

dialAddr == "example.org:22"
peerAddr == "192.0.2.7:22"

Configs ==
    [KeyExchanges : {<<>>, <<kexAlgoDH1SHA1, kexAlgoECDH521>>, <<foreignKex, kexAlgoDH14SHA1>>},
     Ciphers : {<<>>},
     MACs : {<<>>},
     HostKeyChecker : BOOLEAN,
     dialAddress : {"", dialAddr}]

\* The kexInitMsg the client builds in handshake.
clientKexInitMsg(c) ==
    [KexAlgos |-> kexes(c),
     ServerHostKeyAlgos |-> supportedHostKeyAlgos,
     CiphersClientServer |-> ciphers(c),
     CiphersServerClient |-> ciphers(c),
     MACsClientServer |-> macs(c),
     MACsServerClient |-> macs(c),
     CompressionClientServer |-> supportedCompressions,
     CompressionServerClient |-> supportedCompressions,
     FirstKexFollows |-> FALSE]

\* The kexInitMsg packets the peer may send.
ServerKexInits ==
    [KexAlgos : {<<kexAlgoECDH256, kexAlgoDH14SHA1>>, <<kexAlgoDH14SHA1, kexAlgoECDH256>>,
                 <<kexAlgoDH1SHA1>>, <<kexAlgoECDH521, kexAlgoECDH384>>, <<foreignKex>>},
     ServerHostKeyAlgos : {<<hostAlgoRSA>>, <<hostAlgoDSA>>},
     CiphersClientServer : {<<"arcfour128", "aes128-ctr">>, <<"3des-cbc">>},
     CiphersServerClient : {<<"aes128-ctr">>, <<"3des-cbc">>},
     MACsClientServer : {<<"hmac-sha1-96", "hmac-sha1">>, <<"hmac-md5">>},
     MACsServerClient : {<<"hmac-sha1">>, <<"hmac-md5">>},
     CompressionClientServer : {<<compressionNone>>, <<"zlib">>},
     CompressionServerClient : {<<compressionNone>>, <<"zlib">>},
     FirstKexFollows : BOOLEAN]

---------------------------------------------------------------------------
(* What the peer may put on the wire during the handshake                  *)

\* A signature blob: does parseSignatureBody consume it, its format string,
\* and whether its bytes are a valid signature of H under the host key.
Signatures ==
    {[parses |-> FALSE, Format |-> "", verifies |-> FALSE]}
    \cup [parses : {TRUE}, Format : {hostAlgoRSA, hostAlgoDSA}, verifies : BOOLEAN]

\* A host key blob: "rsa-key" parses with ParsePublicKey, "garbage" does not.
HostKeys == {"rsa-key", "garbage"}

ECPoints == {"on-curve", "off-curve", "unparsable"}

kexDHReplyMsgs(group) ==
    [HostKey : HostKeys, Y : PeerPublics(group), Signature : Signatures]

kexECDHReplyMsgs ==
    [HostKey : HostKeys, EphemeralPubKey : ECPoints, Signature : Signatures]

\* Packet types the peer may send where NEWKEYS is expected.
NewKeysSlotTypes == {"msgNewKeys", "msgKexInit", "msgIgnore", "msgDisconnect"}

NoError == [kind |-> "", expected |-> "", got |-> ""]
Error(kind) == [kind |-> kind, expected |-> "", got |-> ""]
UnexpectedMessageError(expected, got) ==
    [kind |-> "UnexpectedMessageError", expected |-> expected, got |-> got]
ParseError(msgType) == [kind |-> "ParseError", expected |-> msgType, got |-> ""]

isECDH(algo) == algo \in {kexAlgoECDH256, kexAlgoECDH384, kexAlgoECDH521}
isDH(algo) == algo \in {kexAlgoDH14SHA1, kexAlgoDH1SHA1}
groupOf(algo) == IF algo = kexAlgoDH14SHA1 THEN dhGroup14 ELSE dhGroup1
\* ecHash and the crypto.SHA1 argument of kexDH.
hashOf(algo) ==
    CASE algo = kexAlgoECDH256 -> "SHA256"
      [] algo = kexAlgoECDH384 -> "SHA384"
      [] algo = kexAlgoECDH521 -> "SHA512"
      [] OTHER -> "SHA1"

---------------------------------------------------------------------------
(* verifyHostKeySignature, client.go                                       *)

\* Mutant: the comparison of sig.Format with hostKeyAlgo is left out.
verifyHostKeySignatureNoFormat(algo, hostKeyBytes, signature) ==
    IF hostKeyBytes = "garbage" THEN Error("ssh: could not parse hostkey")
    ELSE IF ~signature.parses THEN Error("ssh: signature parse error")
    ELSE IF ~signature.verifies THEN Error("ssh: host key signature error")
    ELSE NoError

\* The error verifyHostKeySignature returns (NoError for nil); the data signed
\* is result.H, and signature.verifies says whether the blob signs it.
verifyHostKeySignature(algo, hostKeyBytes, signature) ==
    IF hostKeyBytes = "garbage" THEN Error("ssh: could not parse hostkey")
    ELSE IF ~signature.parses THEN Error("ssh: signature parse error")
    ELSE IF signature.Format # algo THEN Error("ssh: unexpected signature type")
    ELSE IF ~signature.verifies THEN Error("ssh: host key signature error")
    ELSE NoError

---------------------------------------------------------------------------
(* ClientConn.handshake and clientWithAddress, client.go                   *)

NoKeys == [cipherAlgo |-> "", macAlgo |-> "", compressionAlgo |-> "", keys |-> FALSE]

HsInit ==
    /\ config \in Configs
    /\ pc = "writeVersion"
    /\ err = NoError
    /\ wire = <<>>
    /\ rx = <<>>
    /\ magics = {}
    /\ serverKexInit = <<>>
    /\ kexAlgo = ""
    /\ hostKeyAlgo = ""
    /\ transport = [writer |-> NoKeys, reader |-> NoKeys, closed |-> FALSE]
    /\ kex = <<>>
    /\ result = <<>>
    /\ verified = FALSE
    /\ checks = <<>>
    /\ authed = ""
    /\ conn = "pending"
    /\ loop = FALSE

\* handshake returns e: control is back in clientWithAddress.
Return(e) ==
    /\ pc' = "handshakeErr"
    /\ err' = e

\* c.Write(version) and c.Flush(), lines 68-81.
WriteVersion ==
    /\ pc = "writeVersion"
    /\ magics' = magics \cup {"clientVersion"}
    /\ \/ pc' = "readVersion" /\ err' = err
       \/ Return(Error("write"))
    /\ UNCHANGED <<negVars, winVars, restVars, config, wire, rx, serverKexInit, kexAlgo,
                   hostKeyAlgo, transport, kex, result, verified, checks, conn, loop,
                   authed>>

\* readVersion, lines 83-89.
ReadVersion ==
    /\ pc = "readVersion"
    /\ \/ /\ magics' = magics \cup {"serverVersion"}
          /\ pc' = "writeKexInit"
          /\ err' = err
       \/ Return(Error("read")) /\ magics' = magics
    /\ UNCHANGED <<negVars, winVars, restVars, config, wire, rx, serverKexInit, kexAlgo,
                   hostKeyAlgo, transport, kex, result, verified, checks, conn, loop,
                   authed>>

\* Mutant of WriteKexInit: the KexInit packet is written twice.
WriteKexInitTwice ==
    /\ pc = "writeKexInit"
    /\ magics' = magics \cup {"clientKexInit"}
    /\ wire' = wire \o <<"msgKexInit", "msgKexInit">>
    /\ pc' = "readKexInit"
    /\ UNCHANGED <<negVars, winVars, restVars, config, err, rx, serverKexInit, kexAlgo,
                   hostKeyAlgo, transport, kex, result, verified, checks, conn, loop,
                   authed>>

\* marshal and writePacket of the client's KexInit, lines 90-105.
WriteKexInit ==
    /\ pc = "writeKexInit"
    /\ magics' = magics \cup {"clientKexInit"}
    /\ \/ /\ wire' = Append(wire, "msgKexInit")
          /\ pc' = "readKexInit"
          /\ err' = err
       \/ Return(Error("write")) /\ wire' = wire
    /\ UNCHANGED <<negVars, winVars, restVars, config, rx, serverKexInit, kexAlgo, hostKeyAlgo,
                   transport, kex, result, verified, checks, conn, loop, authed>>

\* readPacket, unmarshal and findAgreedAlgorithms, lines 106-129.
ReadKexInit ==
    /\ pc = "readKexInit"
    /\ \/ /\ Return(Error("read"))
          /\ UNCHANGED <<rx, magics, serverKexInit, kexAlgo, hostKeyAlgo, transport>>
       \/ \E t \in {"msgIgnore", "msgDisconnect"} :
             /\ rx' = Append(rx, t)
             /\ magics' = magics \cup {"serverKexInit"}
             /\ Return(UnexpectedMessageError("msgKexInit", t))
             /\ UNCHANGED <<serverKexInit, kexAlgo, hostKeyAlgo, transport>>
       \/ /\ rx' = Append(rx, "msgKexInit")
          /\ magics' = magics \cup {"serverKexInit"}
          /\ Return(ParseError("msgKexInit"))
          /\ UNCHANGED <<serverKexInit, kexAlgo, hostKeyAlgo, transport>>
       \/ \E s \in ServerKexInits :
             LET a == findAgreedAlgorithms(clientKexInitMsg(config), s) IN
             /\ rx' = Append(rx, "msgKexInit")
             /\ magics' = magics \cup {"serverKexInit"}
             /\ serverKexInit' = <<s>>
             /\ kexAlgo' = a.kexAlgo
             /\ hostKeyAlgo' = a.hostKeyAlgo
             /\ transport' = [transport EXCEPT
                    !.writer.cipherAlgo = a.writer.cipherAlgo,
                    !.writer.macAlgo = a.writer.macAlgo,
                    !.writer.compressionAlgo = a.writer.compressionAlgo,
                    !.reader.cipherAlgo = a.reader.cipherAlgo,
                    !.reader.macAlgo = a.reader.macAlgo,
                    !.reader.compressionAlgo = a.reader.compressionAlgo]
             /\ IF ~a.ok THEN Return(Error("ssh: no common algorithms"))
                ELSE /\ err' = err
                     /\ pc' = IF s.FirstKexFollows /\ a.kexAlgo # s.KexAlgos[1]
                              THEN "discardGuess" ELSE "kex"
    /\ UNCHANGED <<negVars, winVars, restVars, config, wire, kex, result, verified, checks,
                   conn, loop, authed>>

\* Mutant of DiscardGuess: no packet is read, the key exchange starts at once.
DiscardGuessSkipped ==
    /\ pc = "discardGuess"
    /\ pc' = "kex"
    /\ UNCHANGED <<negVars, winVars, restVars, config, wire, rx, err, magics, serverKexInit,
                   kexAlgo, hostKeyAlgo, transport, kex, result, verified, checks, conn,
                   loop, authed>>

\* The readPacket that drops the peer's wrongly guessed packet, lines 123-129.
DiscardGuess ==
    /\ pc = "discardGuess"
    /\ \/ Return(Error("read")) /\ rx' = rx
       \/ \E t \in {"msgKexDHReply", "msgKexECDHReply", "msgIgnore"} :
             /\ rx' = Append(rx, t)
             /\ pc' = "kex"
             /\ err' = err
    /\ UNCHANGED <<negVars, winVars, restVars, config, wire, magics, serverKexInit, kexAlgo,
                   hostKeyAlgo, transport, kex, result, verified, checks, conn, loop,
                   authed>>

\* kexECDH up to its writePacket, lines 133-138 and 184-197.
KexECDHInit ==
    /\ pc = "kex"
    /\ isECDH(kexAlgo)
    /\ \/ Return(Error("ecdsa.GenerateKey")) /\ UNCHANGED <<wire, kex>>
       \/ Return(Error("write")) /\ UNCHANGED <<wire, kex>>
       \/ /\ wire' = Append(wire, "msgKexECDHInit")
          /\ kex' = <<[x |-> 0, reply |-> <<>>]>>
          /\ pc' = "kexReadReply"
          /\ err' = err
    /\ UNCHANGED <<negVars, winVars, restVars, config, rx, magics, serverKexInit, kexAlgo,
                   hostKeyAlgo, transport, result, verified, checks, conn, loop,
                   authed>>

\* kexDH up to its writePacket, lines 139-144 and 282-293.
KexDHInit ==
    /\ pc = "kex"
    /\ isDH(kexAlgo)
    /\ \/ Return(Error("rand.Int")) /\ UNCHANGED <<wire, kex>>
       \/ Return(Error("write")) /\ UNCHANGED <<wire, kex>>
       \/ \E x \in randInt(groupOf(kexAlgo).p) :
             /\ wire' = Append(wire, "msgKexDHInit")
             /\ kex' = <<[x |-> x, reply |-> <<>>]>>
             /\ pc' = "kexReadReply"
             /\ err' = err
    /\ UNCHANGED <<negVars, winVars, restVars, config, rx, magics, serverKexInit, kexAlgo,
                   hostKeyAlgo, transport, result, verified, checks, conn, loop,
                   authed>>

\* The default case of the switch on kexAlgo, lines 145-150.
KexUnexpected ==
    /\ pc = "kex"
    /\ ~isECDH(kexAlgo)
    /\ ~isDH(kexAlgo)
    /\ Return(Error("ssh: unexpected key exchange algorithm"))
    /\ UNCHANGED <<negVars, winVars, restVars, config, wire, rx, magics, serverKexInit,
                   kexAlgo, hostKeyAlgo, transport, kex, result, verified, checks,
                   conn, loop, authed>>

\* readPacket and unmarshal of the key exchange reply, lines 199-207 and 295-303.
KexReadReply ==
    /\ pc = "kexReadReply"
    /\ LET want == IF isECDH(kexAlgo) THEN "msgKexECDHReply" ELSE "msgKexDHReply" IN
       \/ Return(Error("read")) /\ UNCHANGED <<rx, kex>>
       \/ \E t \in {"msgIgnore", "msgNewKeys"} :
             /\ rx' = Append(rx, t)
             /\ Return(UnexpectedMessageError(want, t))
             /\ kex' = <<>>
       \/ /\ rx' = Append(rx, want)
          /\ Return(ParseError(want))
          /\ kex' = <<>>
       \/ \E m \in (IF isECDH(kexAlgo) THEN kexECDHReplyMsgs
                    ELSE kexDHReplyMsgs(groupOf(kexAlgo))) :
             /\ rx' = Append(rx, want)
             /\ kex' = <<[kex[1] EXCEPT !.reply = <<m>>]>>
             /\ pc' = "kexCompute"
             /\ err' = err
    /\ UNCHANGED <<negVars, winVars, restVars, config, wire, magics, serverKexInit, kexAlgo,
                   hostKeyAlgo, transport, result, verified, checks, conn, loop,
                   authed>>

\* The rest of kexECDH: point checks, shared secret, session hash, lines 209-240.
KexECDHCompute ==
    /\ pc = "kexCompute"
    /\ isECDH(kexAlgo)
    /\ LET m == kex[1].reply[1] IN
       IF m.EphemeralPubKey = "unparsable"
       THEN Return(Error("ssh: elliptic.Unmarshal failure")) /\ result' = result
       ELSE IF m.EphemeralPubKey = "off-curve"
       THEN Return(Error("ssh: ephemeral server key not on curve")) /\ result' = result
       ELSE /\ result' = <<[H |-> magics, K |-> 1, HostKey |-> m.HostKey,
                            Signature |-> m.Signature, Hash |-> hashOf(kexAlgo)]>>
            /\ pc' = "verifyHostKey"
            /\ err' = err
    /\ kex' = <<>>
    /\ UNCHANGED <<negVars, winVars, restVars, config, wire, rx, magics, serverKexInit,
                   kexAlgo, hostKeyAlgo, transport, verified, checks, conn, loop,
                   authed>>

\* The rest of kexDH: diffieHellman and the session hash, lines 305-329.
KexDHCompute ==
    /\ pc = "kexCompute"
    /\ isDH(kexAlgo)
    /\ LET m == kex[1].reply[1]
           k == diffieHellman(groupOf(kexAlgo), m.Y, kex[1].x)
       IN  IF ~k.ok
           THEN Return(Error("ssh: DH parameter out of bounds")) /\ result' = result
           ELSE /\ result' = <<[H |-> magics, K |-> k.K, HostKey |-> m.HostKey,
                                Signature |-> m.Signature, Hash |-> hashOf(kexAlgo)]>>
                /\ pc' = "verifyHostKey"
                /\ err' = err
    /\ kex' = <<>>
    /\ UNCHANGED <<negVars, winVars, restVars, config, wire, rx, magics, serverKexInit,
                   kexAlgo, hostKeyAlgo, transport, verified, checks, conn, loop,
                   authed>>

\* The call of verifyHostKeySignature, lines 152-155.
VerifyHostKey ==
    /\ pc = "verifyHostKey"
    /\ LET e == verifyHostKeySignature(hostKeyAlgo, result[1].HostKey, result[1].Signature) IN
       IF e # NoError
       THEN Return(e) /\ verified' = verified
       ELSE /\ verified' = TRUE
            /\ pc' = "checkHostKey"
            /\ err' = err
    /\ UNCHANGED <<negVars, winVars, restVars, config, wire, rx, magics, serverKexInit,
                   kexAlgo, hostKeyAlgo, transport, kex, result, checks, conn, loop,
                   authed>>

\* One invocation of HostKeyChecker.Check as handshake makes it, with the
\* verdict the checker gave (accepted: it returned nil).
checkCall(verdict) ==
    [addr |-> config.dialAddress, remote |-> peerAddr, algo |-> hostKeyAlgo,
     key |-> result[1].HostKey, accepted |-> verdict]

\* Mutant of CheckHostKey: the error the checker returns is dropped.
CheckHostKeyIgnoreRefusal ==
    /\ pc = "checkHostKey"
    /\ \E verdict \in BOOLEAN :
          checks' = IF config.HostKeyChecker THEN Append(checks, checkCall(verdict))
                    ELSE checks
    /\ pc' = "writeNewKeys"
    /\ UNCHANGED <<negVars, winVars, restVars, config, err, wire, rx, magics, serverKexInit,
                   kexAlgo, hostKeyAlgo, transport, kex, result, verified, conn,
                   loop, authed>>

\* The HostKeyChecker call, lines 157-162; the checker accepts or refuses.
CheckHostKey ==
    /\ pc = "checkHostKey"
    /\ IF config.HostKeyChecker
       THEN \E verdict \in BOOLEAN :
               /\ checks' = Append(checks, checkCall(verdict))
               /\ IF verdict THEN pc' = "writeNewKeys" /\ err' = err
                  ELSE Return(Error("host key refused"))
       ELSE /\ checks' = checks
            /\ pc' = "writeNewKeys"
            /\ err' = err
    /\ UNCHANGED <<negVars, winVars, restVars, config, wire, rx, magics, serverKexInit,
                   kexAlgo, hostKeyAlgo, transport, kex, result, verified, conn,
                   loop, authed>>

\* writePacket of NEWKEYS, lines 164-166.
WriteNewKeys ==
    /\ pc = "writeNewKeys"
    /\ \/ /\ wire' = Append(wire, "msgNewKeys")
          /\ pc' = "setupWriterKeys"
          /\ err' = err
       \/ Return(Error("write")) /\ wire' = wire
    /\ UNCHANGED <<negVars, winVars, restVars, config, rx, magics, serverKexInit, kexAlgo,
                   hostKeyAlgo, transport, kex, result, verified, checks, conn, loop,
                   authed>>

\* writer.setupKeys, lines 167-169.
SetupWriterKeys ==
    /\ pc = "setupWriterKeys"
    /\ \/ /\ transport' = [transport EXCEPT !.writer.keys = TRUE]
          /\ pc' = "readNewKeys"
          /\ err' = err
       \/ Return(Error("setupKeys")) /\ transport' = transport
    /\ UNCHANGED <<negVars, winVars, restVars, config, wire, rx, magics, serverKexInit,
                   kexAlgo, hostKeyAlgo, kex, result, verified, checks, conn, loop,
                   authed>>

\* Mutant of ReadNewKeys: the type of the packet read is not looked at.
ReadNewKeysAnyType ==
    /\ pc = "readNewKeys"
    /\ \E t \in NewKeysSlotTypes :
          /\ rx' = Append(rx, t)
          /\ pc' = "setupReaderKeys"
    /\ UNCHANGED <<negVars, winVars, restVars, config, err, wire, magics, serverKexInit,
                   kexAlgo, hostKeyAlgo, transport, kex, result, verified, checks,
                   conn, loop, authed>>

\* readPacket and the check of packet[0], lines 170-175.
ReadNewKeys ==
    /\ pc = "readNewKeys"
    /\ \/ Return(Error("read")) /\ rx' = rx
       \/ \E t \in NewKeysSlotTypes :
             /\ rx' = Append(rx, t)
             /\ IF t # "msgNewKeys"
                THEN Return(UnexpectedMessageError("msgNewKeys", t))
                ELSE pc' = "setupReaderKeys" /\ err' = err
    /\ UNCHANGED <<negVars, winVars, restVars, config, wire, magics, serverKexInit, kexAlgo,
                   hostKeyAlgo, transport, kex, result, verified, checks, conn, loop,
                   authed>>

\* reader.setupKeys, lines 176-178.
SetupReaderKeys ==
    /\ pc = "setupReaderKeys"
    /\ \/ /\ transport' = [transport EXCEPT !.reader.keys = TRUE]
          /\ pc' = "authenticate"
          /\ err' = err
       \/ Return(Error("setupKeys")) /\ transport' = transport
    /\ UNCHANGED <<negVars, winVars, restVars, config, wire, rx, magics, serverKexInit,
                   kexAlgo, hostKeyAlgo, kex, result, verified, checks, conn, loop,
                   authed>>

\* Mutant of Authenticate: the error of the authenticator is dropped.
AuthenticateIgnoreFailure ==
    /\ pc = "authenticate"
    /\ wire' \in {wire, Append(wire, "msgServiceRequest")}
    /\ authed' \in {"ok", "failed"}
    /\ pc' = "handshakeOk"
    /\ UNCHANGED <<negVars, winVars, restVars, config, err, rx, magics, serverKexInit, kexAlgo,
                   hostKeyAlgo, transport, kex, result, verified, checks, conn,
                   loop>>

\* return c.authenticate(result.H), line 179.  The authenticator is a
\* collaborator: it may put packets of its own on the wire, and succeeds or fails.
Authenticate ==
    /\ pc = "authenticate"
    /\ wire' \in {wire, Append(wire, "msgServiceRequest")}
    /\ \/ authed' = "ok" /\ pc' = "handshakeOk" /\ err' = err
       \/ authed' = "failed" /\ Return(Error("ssh: unable to authenticate"))
    /\ UNCHANGED <<negVars, winVars, restVars, config, rx, magics, serverKexInit, kexAlgo,
                   hostKeyAlgo, transport, kex, result, verified, checks, conn,
                   loop>>

\* Mutant of HandshakeFailed: the loop is started although handshake failed.
HandshakeFailedStartsLoop ==
    /\ pc = "handshakeErr"
    /\ loop' = TRUE
    /\ conn' = "conn"
    /\ pc' = "done"
    /\ UNCHANGED <<negVars, winVars, restVars, config, err, wire, rx, magics, serverKexInit,
                   kexAlgo, hostKeyAlgo, transport, kex, result, verified, checks,
                   authed>>

\* clientWithAddress when handshake returned an error, lines 56-59.
HandshakeFailed ==
    /\ pc = "handshakeErr"
    /\ transport' = [transport EXCEPT !.closed = TRUE]
    /\ conn' = "nil"
    /\ pc' = "done"
    /\ UNCHANGED <<negVars, winVars, restVars, config, err, wire, rx, magics, serverKexInit,
                   kexAlgo, hostKeyAlgo, kex, result, verified, checks, loop,
                   authed>>

\* clientWithAddress when handshake returned nil, lines 60-61.
StartMainLoop ==
    /\ pc = "handshakeOk"
    /\ loop' = TRUE
    /\ conn' = "conn"
    /\ pc' = "done"
    /\ UNCHANGED <<negVars, winVars, restVars, config, err, wire, rx, magics, serverKexInit,
                   kexAlgo, hostKeyAlgo, transport, kex, result, verified, checks,
                   authed>>

Next ==
    \/ WriteVersion \/ ReadVersion \/ WriteKexInit \/ ReadKexInit \/ DiscardGuess
    \/ KexECDHInit \/ KexDHInit \/ KexUnexpected \/ KexReadReply
    \/ KexECDHCompute \/ KexDHCompute
    \/ VerifyHostKey \/ CheckHostKey
    \/ WriteNewKeys \/ SetupWriterKeys \/ ReadNewKeys \/ SetupReaderKeys
    \/ Authenticate \/ HandshakeFailed \/ StartMainLoop

\* The other components at rest.
NegIdle == negCall = <<>> /\ negRet = <<>>
WinIdle == win = <<0, 0>> /\ winLog = <<>> /\ waiting = <<>>


\* The application tasks that use the connection beside mainLoop.
Tasks == {1, 2}

\* The channel table, the connection loop, the global requests and the codec
\* harness, at rest.
ChanIdle ==
    /\ chans = <<>>
    /\ chanState = <<>>
    /\ chanMutex = 0
    /\ taskPc = [t \in Tasks |-> [at |-> "idle"]]
    /\ chanLog = <<>>
MuxIdle ==
    /\ loopPc = "idle"
    /\ exitReason = ""
    /\ lastPkt = <<>>
    /\ nRead = 0
    /\ out = <<>>
    /\ closed = FALSE
    /\ fwdQueue = <<>>
    /\ fwdClosed = FALSE
    /\ grMutex = 0
    /\ grPc = [t \in Tasks |-> [at |-> "idle"]]
    /\ response = <<>>
    /\ grLog = <<>>
CodecIdle == codecCall = <<>> /\ codecRet = <<>>
RestIdle == ChanIdle /\ MuxIdle /\ CodecIdle

Init == HsInit /\ NegIdle /\ WinIdle /\ RestIdle
Spec == Init /\ [][Next]_vars

---------------------------------------------------------------------------
(* Properties of the handshake                                             *)

Last(q) == q[Len(q)]
handshakeSucceeded == pc = "handshakeOk" \/ (pc = "done" /\ err = NoError)
handshakeFailed == pc = "handshakeErr" \/ (pc = "done" /\ err # NoError)
kexInitType == IF isECDH(kexAlgo) THEN "msgKexECDHInit" ELSE "msgKexDHInit"
HandshakeTypes == {"msgKexInit", "msgKexECDHInit", "msgKexDHInit", "msgNewKeys"}

\* C1: a handshake that succeeded wrote, after the banner, exactly KexInit,
\* then the init packet of the negotiated key exchange, then NEWKEYS; these
\* are the first three packets and none of their types is written again.
C1_HandshakeWrites ==
    handshakeSucceeded =>
        /\ "clientVersion" \in magics
        /\ Len(wire) >= 3
        /\ SubSeq(wire, 1, 3) = <<"msgKexInit", kexInitType, "msgNewKeys">>
        /\ \A i \in 4 .. Len(wire) : wire[i] \notin HandshakeTypes

C1_Witness ==
    /\ conn = "conn"
    /\ kexAlgo = kexAlgoDH14SHA1
    /\ wire = <<"msgKexInit", "msgKexDHInit", "msgNewKeys", "msgServiceRequest">>
    /\ rx = <<"msgKexInit", "msgKexDHReply", "msgNewKeys">>

\* C2: the writer's keys are installed only after NEWKEYS was written, the
\* reader's keys only after a NEWKEYS packet was read; a packet of any other
\* type read in that place makes handshake return UnexpectedMessageError, and
\* after that the reader's keys are never installed.
C2_KeysAfterNewKeys ==
    /\ [](transport.writer.keys => "msgNewKeys" \in Range(wire))
    /\ [](transport.reader.keys => "msgNewKeys" \in Range(rx))
    /\ [][(pc = "readNewKeys" /\ rx' # rx /\ Last(rx') # "msgNewKeys")
            => /\ pc' = "handshakeErr"
               /\ err' = UnexpectedMessageError("msgNewKeys", Last(rx'))
               /\ ~transport'.reader.keys]_vars
    /\ [][handshakeFailed => ~transport'.reader.keys \/ transport.reader.keys]_vars

C2_Witness ==
    /\ err = UnexpectedMessageError("msgNewKeys", "msgKexInit")
    /\ transport.writer.keys
    /\ ~transport.reader.keys
    /\ pc = "done"

\* C3: the host key checker is called at most once per handshake, with the
\* dial address of the connection, only when one is configured and only after
\* the signature was verified; a refusal makes the handshake fail with NEWKEYS
\* never written; without a checker a verified host key is always accepted.
C3_HostKeyChecker ==
    /\ [](/\ Len(checks) <= 1
          /\ \A i \in DOMAIN checks :
                /\ checks[i].addr = config.dialAddress
                /\ config.HostKeyChecker
                /\ verified
                /\ ~checks[i].accepted =>
                      /\ handshakeFailed
                      /\ "msgNewKeys" \notin Range(wire)
                      /\ ~loop)
    /\ [][(pc = "checkHostKey" /\ ~config.HostKeyChecker)
            => (pc' = "writeNewKeys" /\ checks' = checks)]_vars

C3_Witness ==
    /\ pc = "done"
    /\ config.dialAddress = dialAddr
    /\ Len(checks) = 1
    /\ ~checks[1].accepted
    /\ conn = "nil"

\* C4: when the format string of the server's signature differs from the
\* negotiated host key algorithm, verifyHostKeySignature fails and the
\* handshake fails before NEWKEYS, also when the signature bytes verify.
C4_SignatureFormat ==
    (/\ result # <<>>
     /\ result[1].Signature.parses
     /\ result[1].Signature.Format # hostKeyAlgo)
    => /\ ~verified
       /\ "msgNewKeys" \notin Range(wire)
       /\ pc \in {"verifyHostKey", "handshakeErr", "done"}
       /\ pc # "verifyHostKey" => (err # NoError /\ err.kind # "ssh: host key signature error")
       /\ conn # "conn"

C4_Witness ==
    /\ pc = "handshakeErr"
    /\ result # <<>>
    /\ result[1].HostKey = "rsa-key"
    /\ result[1].Signature = [parses |-> TRUE, Format |-> hostAlgoDSA, verifies |-> TRUE]
    /\ hostKeyAlgo = hostAlgoRSA
    /\ err = Error("ssh: unexpected signature type")

\* C5: mainLoop is started only after a handshake that exchanged NEWKEYS in
\* both directions, installed both key sets and authenticated; after a failed
\* handshake the transport is closed, nil is returned and no loop runs.
C5_LoopAfterHandshake ==
    /\ loop =>
          /\ err = NoError
          /\ conn = "conn"
          /\ "msgNewKeys" \in Range(wire)
          /\ "msgNewKeys" \in Range(rx)
          /\ transport.writer.keys
          /\ transport.reader.keys
          /\ authed = "ok"
          /\ ~transport.closed
    /\ err # NoError => ~loop /\ conn # "conn"
    /\ (pc = "done" /\ err # NoError) => (transport.closed /\ conn = "nil")

C5_Witness ==
    /\ loop
    /\ conn = "conn"
    /\ isECDH(kexAlgo)
    /\ Len(rx) = 4

---------------------------------------------------------------------------
(* Algorithm negotiation on its own: findCommonAlgorithm over every pair   *)
(* of short lists, findAgreedAlgorithms over the KexInit messages.         *)

MaxAlgos == 3
AlgoNames == {"a", "b", "c"}
AlgoLists == UNION {[1 .. n -> AlgoNames] : n \in 0 .. MaxAlgos}

\* Client KexInit messages, one of them preferring a cipher without a mode entry.
NegClientInits ==
    {clientKexInitMsg(c) :
        c \in [KeyExchanges : {<<>>, <<kexAlgoDH1SHA1, kexAlgoECDH521>>},
               Ciphers : {<<>>, <<"3des-cbc", "aes128-ctr">>},
               MACs : {<<>>, <<"hmac-md5">>}]}

Categories ==
    {"KexAlgos", "ServerHostKeyAlgos", "CiphersClientServer", "CiphersServerClient",
     "MACsClientServer", "MACsServerClient", "CompressionClientServer",
     "CompressionServerClient"}

NegInit == negCall = <<>> /\ negRet = <<>>

\* Everything of the handshake and the window, at rest.
HsIdle ==
    /\ config = [KeyExchanges |-> <<>>, Ciphers |-> <<>>, MACs |-> <<>>,
                 HostKeyChecker |-> FALSE, dialAddress |-> ""]
    /\ pc = "idle"
    /\ err = NoError
    /\ wire = <<>>
    /\ rx = <<>>
    /\ magics = {}
    /\ serverKexInit = <<>>
    /\ kexAlgo = ""
    /\ hostKeyAlgo = ""
    /\ transport = [writer |-> NoKeys, reader |-> NoKeys, closed |-> FALSE]
    /\ kex = <<>>
    /\ result = <<>>
    /\ verified = FALSE
    /\ checks = <<>>
    /\ authed = ""
    /\ conn = "pending"
    /\ loop = FALSE

CallFindCommonAlgorithm ==
    /\ negCall = <<>>
    /\ \E c \in AlgoLists, s \in AlgoLists :
          /\ negCall' = <<[fn |-> "findCommonAlgorithm", client |-> c, server |-> s]>>
          /\ negRet' = <<findCommonAlgorithm(c, s)>>
    /\ UNCHANGED <<hsVars, winVars, restVars>>

CallFindAgreedAlgorithms ==
    /\ negCall = <<>>
    /\ \E c \in NegClientInits, s \in ServerKexInits :
          /\ negCall' = <<[fn |-> "findAgreedAlgorithms", client |-> c, server |-> s]>>
          /\ negRet' = <<findAgreedAlgorithms(c, s)>>
    /\ UNCHANGED <<hsVars, winVars, restVars>>

NegReturn ==
    /\ negCall # <<>>
    /\ negCall' = <<>>
    /\ negRet' = <<>>
    /\ UNCHANGED <<hsVars, winVars, restVars>>

NextNeg == CallFindCommonAlgorithm \/ CallFindAgreedAlgorithms \/ NegReturn
InitNeg == HsIdle /\ NegInit /\ WinIdle /\ RestIdle
SpecNeg == InitNeg /\ [][NextNeg]_vars

commonCall == negCall # <<>> /\ negCall[1].fn = "findCommonAlgorithm"
agreedCall == negCall # <<>> /\ negCall[1].fn = "findAgreedAlgorithms"
disjoint(c, s) == Range(c) \cap Range(s) = {}

\* C6: findCommonAlgorithm succeeds exactly when the lists share a name and
\* then returns the first client entry found in the server's list;
\* findAgreedAlgorithms fails when the lists of any category are disjoint.
C6_Negotiation ==
    /\ commonCall =>
          LET c == negCall[1].client
              s == negCall[1].server
              r == negRet[1]
          IN  /\ r.ok <=> ~disjoint(c, s)
              /\ r.ok => \E i \in DOMAIN c :
                            /\ r.algo = c[i]
                            /\ c[i] \in Range(s)
                            /\ \A j \in 1 .. (i - 1) : c[j] \notin Range(s)
    /\ agreedCall =>
          LET c == negCall[1].client
              s == negCall[1].server
              r == negRet[1]
          IN  /\ (\E cat \in Categories : disjoint(c[cat], s[cat])) => ~r.ok
              /\ r.ok => /\ r.kexAlgo \in Range(c.KexAlgos) \cap Range(s.KexAlgos)
                         /\ r.hostKeyAlgo \in Range(c.ServerHostKeyAlgos)
                                              \cap Range(s.ServerHostKeyAlgos)

C6_Witness ==
    /\ agreedCall
    /\ ~negRet[1].ok
    /\ \A cat \in Categories \ {"CompressionServerClient"} :
          ~disjoint(negCall[1].client[cat], negCall[1].server[cat])
    /\ negCall[1].client.CiphersClientServer = DefaultCipherOrder

\* C7 as stated: client [a,b,c] against server [c,b,a] negotiates b, and
\* disjoint lists give no algorithm.
C7_Original ==
    commonCall =>
        /\ (negCall[1].client = <<"a", "b", "c">> /\ negCall[1].server = <<"c", "b", "a">>)
              => negRet[1] = [algo |-> "b", ok |-> TRUE]
        /\ disjoint(negCall[1].client, negCall[1].server) => ~negRet[1].ok

\* C7 amended: client [a,b,c] against server [c,b,a] negotiates a, the first
\* entry of the client's list the server also lists; disjoint lists give no
\* algorithm.
C7_ClientPreference ==
    commonCall =>
        /\ (negCall[1].client = <<"a", "b", "c">> /\ negCall[1].server = <<"c", "b", "a">>)
              => negRet[1] = [algo |-> "a", ok |-> TRUE]
        /\ disjoint(negCall[1].client, negCall[1].server) => ~negRet[1].ok

C7_Witness ==
    /\ commonCall
    /\ negCall[1].client = <<"a", "b", "c">>
    /\ negCall[1].server = <<"c", "b", "a">>
    /\ negRet[1].ok

---------------------------------------------------------------------------
(* The send window.  A uint32 is the pair <<high, low>> of its             *)
(* 16 bit halves, so that its arithmetic wraps at 2^32 as the code's does. *)

Half == 65536

\* uint32 addition, wrapping modulo 2^32.
u32Add(a, b) ==
    LET lo == a[2] + b[2]
        hi == a[1] + b[1] + (lo \div Half)
    IN  <<hi % Half, lo % Half>>

\* uint32 subtraction, wrapping modulo 2^32.
u32Sub(a, b) ==
    LET lo == a[2] - b[2]
        borrow == IF lo < 0 THEN 1 ELSE 0
        hi == a[1] - b[1] - borrow
    IN  <<hi % Half, lo % Half>>

u32Less(a, b) == a[1] < b[1] \/ (a[1] = b[1] /\ a[2] < b[2])

u32Zero == <<0, 0>>
u32Max == <<Half - 1, Half - 1>>

\* Window sizes, deltas and requests around both ends of the range and
\* around the carry between the halves.
U32Samples ==
    {u32Zero, <<0, 1>>, <<0, 10>>, <<0, Half - 1>>, <<1, 0>>,
     <<Half - 1, Half - 10>>, <<Half - 1, Half - 5>>, u32Max}

MaxOps == 3

\* Mutant of addWraps: the overflow test is left out.
addNeverWraps(w, delta) == FALSE

\* The test w.win+win < win of window.add.
addWraps(w, delta) == u32Less(u32Add(w, delta), delta)

\* Mutant of granted: the request is granted whole, whatever the window holds.
grantedUnclamped(w, request) == request

\* What reserve grants: the request, or the whole window if that is less.
granted(w, request) == IF u32Less(w, request) THEN w ELSE request

WinInit == win = u32Zero /\ winLog = <<>> /\ waiting = <<>>

\* Mutant of broadcast: nobody is woken.
broadcastNobody(q) == q

\* w.Broadcast(): every reserve call asleep in w.Wait() is woken.
broadcast(q) == [i \in DOMAIN q |-> [q[i] EXCEPT !.awake = TRUE]]

\* q without its i-th element.
dropAt(q, i) == SubSeq(q, 1, i - 1) \o SubSeq(q, i + 1, Len(q))

\* window.add(delta), one critical section.
WinAdd ==
    /\ Len(winLog) + Len(waiting) < MaxOps
    /\ \E delta \in U32Samples :
          LET ok == delta = u32Zero \/ ~addWraps(win, delta)
              after == IF delta # u32Zero /\ ok THEN u32Add(win, delta) ELSE win
          IN  /\ win' = after
              /\ winLog' = Append(winLog, [op |-> "add", arg |-> delta, ok |-> ok,
                                           ret |-> u32Zero, before |-> win, after |-> after,
                                           slept |-> FALSE])
              /\ waiting' = IF delta # u32Zero /\ ok THEN broadcast(waiting) ELSE waiting
    /\ UNCHANGED <<hsVars, negVars, restVars>>

\* window.reserve(request) takes the lock and tests the window: at 0 it
\* goes to sleep in w.Wait(), which gives the lock up; otherwise it takes its
\* grant and returns, all in the one critical section.
ReserveCall ==
    /\ Len(winLog) + Len(waiting) < MaxOps
    /\ Len(waiting) < Cardinality(Tasks)
    /\ \E request \in U32Samples :
          IF win = u32Zero
          THEN /\ waiting' = Append(waiting, [request |-> request, awake |-> FALSE])
               /\ UNCHANGED <<win, winLog>>
          ELSE LET g == granted(win, request)
                   after == u32Sub(win, g)
               IN  /\ win' = after
                   /\ winLog' = Append(winLog, [op |-> "reserve", arg |-> request,
                                                ok |-> TRUE, ret |-> g, before |-> win,
                                                after |-> after, slept |-> FALSE])
                   /\ waiting' = waiting
    /\ UNCHANGED <<hsVars, negVars, restVars>>

\* A reserve call that was woken has the lock again and tests the window once
\* more: at 0 it sleeps again, otherwise it takes its grant and returns.
ReserveReturn ==
    /\ \E i \in DOMAIN waiting :
          /\ waiting[i].awake
          /\ IF win = u32Zero
             THEN /\ waiting' = [waiting EXCEPT ![i].awake = FALSE]
                  /\ UNCHANGED <<win, winLog>>
             ELSE LET g == granted(win, waiting[i].request)
                      after == u32Sub(win, g)
                  IN  /\ win' = after
                      /\ winLog' = Append(winLog, [op |-> "reserve",
                                                   arg |-> waiting[i].request, ok |-> TRUE,
                                                   ret |-> g, before |-> win,
                                                   after |-> after, slept |-> TRUE])
                      /\ waiting' = dropAt(waiting, i)
    /\ UNCHANGED <<hsVars, negVars, restVars>>

NextWin == WinAdd \/ ReserveCall \/ ReserveReturn
InitWin == HsIdle /\ NegIdle /\ WinInit /\ RestIdle
SpecWin == InitWin /\ [][NextWin]_vars

\* One task alone calls reserve, one call after the other.
ReserveCallAlone == waiting = <<>> /\ ReserveCall

\* A woken reserve call is runnable and gets the lock in the end: the other
\* critical sections of the window are finite.
NextWinLive == WinAdd \/ ReserveCallAlone \/ ReserveReturn
SpecWinLive == InitWin /\ [][NextWinLive]_vars /\ WF_vars(ReserveReturn)

\* delta fits in the room 2^32 - 1 - w left above w.
fits(w, delta) == ~u32Less(<<Half - 1 - w[1], Half - 1 - w[2]>>, delta)
u32Min(a, b) == IF u32Less(b, a) THEN b ELSE a

\* C9: add(delta) on a window w succeeds and leaves w + delta when the sum is
\* at most 2^32 - 1, and fails leaving w when it is more; add(0) succeeds and
\* changes nothing; the window never wraps.
C9_AddNoWrap ==
    /\ \A i \in DOMAIN winLog :
          winLog[i].op = "add" =>
             LET w == winLog[i].before
                 d == winLog[i].arg
                 a == winLog[i].after
             IN  /\ fits(w, d) => /\ winLog[i].ok
                                  /\ ~u32Less(a, w)
                                  /\ u32Sub(a, w) = d
                 /\ ~fits(w, d) => ~winLog[i].ok /\ a = w
                 /\ d = u32Zero => winLog[i].ok /\ a = w
                 /\ (w # u32Zero /\ d = u32Max) => ~winLog[i].ok /\ a = w
    /\ winLog # <<>> => win = winLog[Len(winLog)].after

C9_Witness ==
    /\ winLog # <<>>
    /\ winLog[Len(winLog)].op = "add"
    /\ winLog[Len(winLog)].before = <<Half - 1, Half - 5>>
    /\ winLog[Len(winLog)].arg = <<0, 10>>
    /\ ~winLog[Len(winLog)].ok
    /\ win = <<Half - 1, Half - 5>>

\* C10: from a window of 0, once add(n) and then reserve(m) have returned,
\* reserve returned min(n, m) and the window is n - min(n, m).
C10_AddThenReserve ==
    (/\ Len(winLog) >= 2
     /\ winLog[1].op = "add"
     /\ winLog[2].op = "reserve")
    => LET n == winLog[1].arg
           m == winLog[2].arg
       IN  /\ winLog[1].before = u32Zero
           /\ winLog[2].ret = u32Min(n, m)
           /\ ~u32Less(n, winLog[2].ret)
           /\ u32Add(winLog[2].after, winLog[2].ret) = n
           /\ Len(winLog) = 2 => win = winLog[2].after

C10_Witness ==
    /\ Len(winLog) = 2
    /\ winLog[1].op = "add"
    /\ winLog[1].arg = <<1, 0>>
    /\ winLog[2].op = "reserve"
    /\ winLog[2].arg = <<0, Half - 1>>
    /\ winLog[2].ret = <<0, Half - 1>>
    /\ win = <<0, 1>>

---------------------------------------------------------------------------
(* The Diffie-Hellman exchange inside the handshake                        *)

dhRunning == pc \in {"kexReadReply", "kexCompute"} /\ isDH(kexAlgo)

\* C8: in kexDH the private exponent x lies in [1, p-1], and a server value Y
\* with Y <= 1 or Y >= p makes diffieHellman return the out-of-bounds error,
\* so that no shared secret and no kexResult is produced.
C8_DHRange ==
    /\ [](dhRunning => kex[1].x \in 1 .. (groupOf(kexAlgo).p - 1))
    /\ [][(/\ pc = "kexCompute"
           /\ isDH(kexAlgo)
           /\ (kex[1].reply[1].Y <= 1 \/ kex[1].reply[1].Y >= groupOf(kexAlgo).p))
            => /\ pc' = "handshakeErr"
               /\ err' = Error("ssh: DH parameter out of bounds")
               /\ result' = <<>>]_vars

---------------------------------------------------------------------------
(* The channel table (chanList).  Slot i of the table is chans[i + 1]; a   *)
(* slot holds 0 for nil or the index in chanState of the clientChan        *)
(* stored there.  A clientChan lives on in chanState after its slot has    *)
(* been cleared, as it does for the tasks that still hold a pointer to it. *)

\* Channels created in one run.
MaxChans == 3

\* A fresh clientChan with the given local id: no peer id yet, an empty send
\* window, empty stdout and stderr buffers, an open and empty mailbox.
newClientChan(localId) ==
    [localId |-> localId, remoteId |-> 0, remoteWin |-> <<0, 0>>, maxPacket |-> <<0, 0>>,
     stdout |-> <<>>, stderr |-> <<>>, eof |-> FALSE,
     msg |-> <<>>, msgClosed |-> 0, sentAfterClose |-> FALSE, closeCalls |-> 0]

RECURSIVE scanFree(_, _)
\* The range loop of newChan from slot i on: the first nil slot, or the
\* length of the table when every slot is taken.
scanFree(table, i) ==
    IF i >= Len(table) THEN Len(table)
    ELSE IF table[i + 1] = 0 THEN i
         ELSE scanFree(table, i + 1)

\* The store of newChan: into the slot found, or appended past the end.
storeChan(table, i, appended, obj) ==
    IF appended THEN Append(table, obj) ELSE [table EXCEPT ![i + 1] = obj]

\* Mutant of removeChan: the slot keeps its channel.
removeChanKeeps(table, id) == table

\* c.chans[id] = nil
removeChan(table, id) == [table EXCEPT ![id + 1] = 0]

\* Mutant of chanListLock: the mutex is taken without waiting for it.
chanListLockNoWait(t) == chanMutex' = t

\* c.Lock() by task t.
chanListLock(t) == chanMutex = 0 /\ chanMutex' = t

ChanInit ==
    /\ chans = <<>>
    /\ chanState = <<>>
    /\ chanMutex = 0
    /\ taskPc = [t \in Tasks |-> [at |-> "idle"]]
    /\ chanLog = <<>>

\* Task t calls newChan and takes the mutex.
NewChanLock(t) ==
    /\ taskPc[t].at = "idle"
    /\ Len(chanState) + Cardinality({u \in Tasks : taskPc[u].at \in {"scan", "store"}})
          < MaxChans
    /\ chanListLock(t)
    /\ taskPc' = [taskPc EXCEPT ![t] = [at |-> "scan"]]
    /\ UNCHANGED <<hsVars, negVars, winVars, muxVars, codecVars, chans, chanState, chanLog>>

\* The loop over the slots, and i := len(c.chans) when it finds none free.
NewChanScan(t) ==
    /\ taskPc[t].at = "scan"
    /\ LET i == scanFree(chans, 0)
       IN  taskPc' = [taskPc EXCEPT ![t] =
                         [at |-> "store", i |-> i, appended |-> (i = Len(chans))]]
    /\ UNCHANGED <<hsVars, negVars, winVars, muxVars, codecVars, chans, chanState,
                   chanMutex, chanLog>>

\* newClientChan, the store into the table, the deferred Unlock and the return.
NewChanStore(t) ==
    /\ taskPc[t].at = "store"
    /\ LET obj == Len(chanState) + 1
       IN  /\ chanState' = Append(chanState, newClientChan(taskPc[t].i))
           /\ chans' = storeChan(chans, taskPc[t].i, taskPc[t].appended, obj)
           /\ chanLog' = Append(chanLog, [before |-> chans, ret |-> obj])
    /\ chanMutex' = 0
    /\ taskPc' = [taskPc EXCEPT ![t] = [at |-> "idle"]]
    /\ UNCHANGED <<hsVars, negVars, winVars, muxVars, codecVars>>

\* Task t calls remove(id), for an id inside the table, and takes the mutex.
RemoveLock(t) ==
    /\ taskPc[t].at = "idle"
    /\ chanListLock(t)
    /\ \E id \in 0 .. (Len(chans) - 1) :
          taskPc' = [taskPc EXCEPT ![t] = [at |-> "remove", id |-> id]]
    /\ UNCHANGED <<hsVars, negVars, winVars, muxVars, codecVars, chans, chanState, chanLog>>

\* c.chans[id] = nil, the deferred Unlock and the return.
RemoveStore(t) ==
    /\ taskPc[t].at = "remove"
    /\ chans' = removeChan(chans, taskPc[t].id)
    /\ chanMutex' = 0
    /\ taskPc' = [taskPc EXCEPT ![t] = [at |-> "idle"]]
    /\ UNCHANGED <<hsVars, negVars, winVars, muxVars, codecVars, chanState, chanLog>>

NextChans ==
    \/ \E t \in Tasks : NewChanLock(t)
    \/ \E t \in Tasks : NewChanScan(t)
    \/ \E t \in Tasks : NewChanStore(t)
    \/ \E t \in Tasks : RemoveLock(t)
    \/ \E t \in Tasks : RemoveStore(t)
InitChans == HsIdle /\ NegIdle /\ WinIdle /\ ChanInit /\ MuxIdle /\ CodecIdle
SpecChans == InitChans /\ [][NextChans]_vars

\* The channels that are in the table.
inTable == {i \in DOMAIN chans : chans[i] # 0}

\* C15: the channel stored in slot i has local id i, no two channels in the
\* table share a local id, and every channel newChan returned has as local id
\* the lowest index whose slot was free when it was called, or the length of
\* the table when none was.
C15_ChannelTable ==
    /\ \A i \in inTable : chanState[chans[i]].localId = i - 1
    /\ \A i, j \in inTable :
          i # j => /\ chans[i] # chans[j]
                   /\ chanState[chans[i]].localId # chanState[chans[j]].localId
    /\ \A k \in DOMAIN chanLog :
          LET id == chanState[chanLog[k].ret].localId
              before == chanLog[k].before
          IN  /\ id \in 0 .. Len(before)
              /\ \A j \in 1 .. id : before[j] # 0
              /\ id < Len(before) => before[id + 1] = 0

\* A freed slot 0 is taken again while slot 1 is still in use.
C15_Witness ==
    /\ chanLog # <<>>
    /\ LET e == chanLog[Len(chanLog)]
       IN  /\ Len(e.before) = 2
           /\ e.before[1] = 0
           /\ e.before[2] # 0
           /\ chans[1] = e.ret
           /\ chanState[e.ret].localId = 0
    /\ \A t \in Tasks : taskPc[t].at = "idle"

---------------------------------------------------------------------------
(* The connection after the handshake: mainLoop, handleChanOpen and        *)
(* sendGlobalRequest.  mainLoop is one process; each of its actions reads  *)
(* one packet and runs the case of the switch that handles it, including   *)
(* the deferred teardown when that case leaves the loop.                   *)

\* Packets mainLoop reads, and sendGlobalRequest calls, in one run.
MaxPackets == 2
MaxRequests == 2

\* Channels opened on one connection, by the application or by the peer.
MaxOpens == 2

\* make(chan interface{}, 1)
responseCap == 1

minPacketLength == 9

ConnectionFailed == "ConnectionFailed"
UnknownChannelType == "UnknownChannelType"

\* 1 << 31, 1 << 14 and 1 << 15 as uint32.
twoTo31 == <<32768, 0>>
twoTo14 == <<0, 16384>>
twoTo15 == <<0, 32768>>

\* The forward list holds one listener; forwards for it go to fwdQueue.
Listener == [ip |-> "10.0.0.1", port |-> 80]
OtherListener == [ip |-> "10.0.0.2", port |-> 80]
Originator == [ip |-> "192.0.2.7", port |-> 5000]
NotAnIP == [ip |-> "localhost", port |-> 80]
ValidIPs == {"10.0.0.1", "10.0.0.2", "192.0.2.7"}

\* forwardList.lookup
lookup(addr) == addr = Listener

\* parseTCPAddr on a sequence of encoded addresses: fails when the input is
\* exhausted or the address text is not an IP.
parseTCPAddr(b) ==
    IF b = <<>> THEN [addr |-> NotAnIP, rest |-> b, ok |-> FALSE]
    ELSE IF b[1].ip \notin ValidIPs THEN [addr |-> NotAnIP, rest |-> Tail(b), ok |-> FALSE]
         ELSE [addr |-> b[1], rest |-> Tail(b), ok |-> TRUE]

\* getChan: not ok past the end of the table; inside it, the slot's content,
\* which is nil (0) for a slot that remove has cleared.
getChan(id) ==
    IF id >= Len(chans) THEN [ch |-> 0, ok |-> FALSE]
    ELSE [ch |-> chans[id + 1], ok |-> TRUE]

\* Mutant of closeAll: no channel is closed.
closeAllNothing(table, cs) == cs

\* chanList.closeAll: ch.Close() and close(ch.msg) for every channel in the table.
closeAll(table, cs) ==
    [o \in DOMAIN cs |->
        IF \E i \in DOMAIN table : table[i] = o
        THEN [cs[o] EXCEPT !.closeCalls = @ + 1, !.msgClosed = @ + 1]
        ELSE cs[o]]

\* Mutant of isStderr: every data type is taken for stderr.
isStderrAlways(datatype) == TRUE

\* datatype == 1
isStderr(datatype) == datatype = 1

channelOpenFailureMsg(peersId, reason) ==
    [type |-> "msgChannelOpenFailure", PeersId |-> peersId, Reason |-> reason]

\* Mutant of channelOpenConfirmMsg: window and max packet change places.
channelOpenConfirmMsgSwapped(peersId, myId) ==
    [type |-> "msgChannelOpenConfirm", PeersId |-> peersId, MyId |-> myId,
     MyWindow |-> twoTo15, MaxPacketSize |-> twoTo14]

channelOpenConfirmMsg(peersId, myId) ==
    [type |-> "msgChannelOpenConfirm", PeersId |-> peersId, MyId |-> myId,
     MyWindow |-> twoTo14, MaxPacketSize |-> twoTo15]

\* sendConnectionFailed
sendConnectionFailed(o, remoteId) ==
    Append(o, channelOpenFailureMsg(remoteId, ConnectionFailed))

\* The test on MaxPacketSize at the head of handleChanOpen.
badMaxPacketSize(size) ==
    u32Less(size, <<0, minPacketLength>>) \/ u32Less(twoTo31, size)

\* handleChanOpen: what it leaves on the transport, in the table, in the
\* channels and on the forward queue.  A forward on the queue records how
\* many packets were written when it was sent to the queue.
handleChanOpen(msg) ==
    LET o1 == IF badMaxPacketSize(msg.MaxPacketSize)
              THEN sendConnectionFailed(out, msg.PeersId) ELSE out
        same == [out |-> o1, chans |-> chans, chanState |-> chanState, fwdQueue |-> fwdQueue]
        laddr == parseTCPAddr(msg.TypeSpecificData)
        raddr == parseTCPAddr(laddr.rest)
        i == scanFree(chans, 0)
        obj == Len(chanState) + 1
        ch == [newClientChan(i) EXCEPT
                  !.remoteId = msg.PeersId,
                  !.remoteWin = IF msg.PeersWindow = u32Zero \/ addWraps(@, msg.PeersWindow)
                                THEN @ ELSE u32Add(@, msg.PeersWindow),
                  !.maxPacket = msg.MaxPacketSize]
    IN  IF msg.ChanType = "forwarded-tcpip"
        THEN IF ~laddr.ok
             THEN [same EXCEPT !.out = sendConnectionFailed(o1, msg.PeersId)]
             ELSE IF ~lookup(laddr.addr)
             THEN [same EXCEPT !.out = sendConnectionFailed(o1, msg.PeersId)]
             ELSE IF ~raddr.ok
             THEN [same EXCEPT !.out = sendConnectionFailed(o1, msg.PeersId)]
             ELSE [out |-> Append(o1, channelOpenConfirmMsg(ch.remoteId, ch.localId)),
                   chans |-> storeChan(chans, i, i = Len(chans), obj),
                   chanState |-> Append(chanState, ch),
                   fwdQueue |-> Append(fwdQueue, [ch |-> obj, raddr |-> raddr.addr,
                                                  written |-> Len(o1) + 1])]
        ELSE [same EXCEPT !.out = Append(o1, channelOpenFailureMsg(msg.PeersId,
                                                                   UnknownChannelType))]

\* Number of global requests written so far.
grWritten == Cardinality({i \in DOMAIN out : out[i].type = "msgGlobalRequest"})

MuxInit ==
    /\ loopPc = "run"
    /\ exitReason = ""
    /\ lastPkt = <<>>
    /\ nRead = 0
    /\ out = <<>>
    /\ closed = FALSE
    /\ fwdQueue = <<>>
    /\ fwdClosed = FALSE
    /\ grMutex = 0
    /\ grPc = [t \in Tasks |-> [at |-> "idle"]]
    /\ response = <<>>
    /\ grLog = <<>>

\* mainLoop is at readPacket and reads pkt.
reads(pkt) ==
    /\ loopPc = "run"
    /\ nRead < MaxPackets
    /\ lastPkt' = pkt
    /\ nRead' = nRead + 1

\* The loop goes round again, the channels being left as cs.
continues(cs) ==
    /\ loopPc' = "run"
    /\ exitReason' = ""
    /\ chanState' = cs
    /\ UNCHANGED <<closed, fwdClosed>>

\* mainLoop leaves its loop and its deferred function runs: c.Close(),
\* c.chanList.closeAll(), c.forwardList.closeAll().
exits(reason, table, cs) ==
    /\ loopPc' = "exited"
    /\ exitReason' = reason
    /\ closed' = TRUE
    /\ chanState' = closeAll(table, cs)
    /\ fwdClosed' = TRUE

\* What the loop does not touch: the tasks' side of the table and of the
\* global requests, and everything before the connection was up.
loopFrame == UNCHANGED <<hsVars, negVars, winVars, codecVars, chanMutex, taskPc, chanLog,
                         grMutex, grPc, grLog>>

\* An application task opens a channel: newChan, in one critical section.
OpenChannel ==
    /\ Len(chanState) < MaxOpens
    /\ chanMutex = 0
    /\ LET i == scanFree(chans, 0)
       IN  /\ chans' = storeChan(chans, i, i = Len(chans), Len(chanState) + 1)
           /\ chanState' = Append(chanState, newClientChan(i))
    /\ UNCHANGED <<hsVars, negVars, winVars, codecVars, chanMutex, taskPc, chanLog, muxVars>>

\* readPacket returns an error.
LoopReadError ==
    /\ reads([type |-> "error"])
    /\ exits("read error", chans, chanState)
    /\ UNCHANGED <<chans, out, fwdQueue, response>>
    /\ loopFrame

\* Ids a packet may name: those of the table and one past its end.
PeerIds == 0 .. Len(chans)
Payloads == {<<7>>}

ChannelDataPkts ==
    {[type |-> "msgChannelData", short |-> TRUE]}
    \cup [type : {"msgChannelData"}, short : {FALSE}, remoteId : PeerIds,
          length : {0, 1}, payload : Payloads]

\* Mutant of LoopChannelData: the length field is not compared with the
\* number of bytes that follow it.
LoopChannelDataUnchecked ==
    /\ \E pkt \in ChannelDataPkts :
          /\ reads(pkt)
          /\ IF pkt.short THEN exits("malformed", chans, chanState)
             ELSE IF ~getChan(pkt.remoteId).ok THEN exits("no channel", chans, chanState)
             ELSE IF getChan(pkt.remoteId).ch = 0 THEN exits("nil channel", chans, chanState)
             ELSE continues([chanState EXCEPT ![getChan(pkt.remoteId).ch].stdout =
                                                  @ \o pkt.payload])
    /\ UNCHANGED <<chans, out, fwdQueue, response>>
    /\ loopFrame

\* case msgChannelData
LoopChannelData ==
    /\ \E pkt \in ChannelDataPkts :
          /\ reads(pkt)
          /\ IF pkt.short THEN exits("malformed", chans, chanState)
             ELSE IF pkt.length # Len(pkt.payload) THEN exits("length", chans, chanState)
             ELSE IF ~getChan(pkt.remoteId).ok THEN exits("no channel", chans, chanState)
             ELSE IF getChan(pkt.remoteId).ch = 0 THEN exits("nil channel", chans, chanState)
             ELSE continues([chanState EXCEPT ![getChan(pkt.remoteId).ch].stdout =
                                                  @ \o pkt.payload])
    /\ UNCHANGED <<chans, out, fwdQueue, response>>
    /\ loopFrame

ExtendedDataPkts ==
    {[type |-> "msgChannelExtendedData", short |-> TRUE, datatype |-> 2]}
    \cup [type : {"msgChannelExtendedData"}, short : {FALSE}, remoteId : PeerIds,
          datatype : {1, 2}, length : {0, 1}, payload : Payloads]

\* case msgChannelExtendedData
LoopExtendedData ==
    /\ \E pkt \in ExtendedDataPkts :
          /\ reads(pkt)
          /\ IF pkt.short THEN exits("malformed", chans, chanState)
             ELSE IF pkt.length # Len(pkt.payload) THEN exits("length", chans, chanState)
             ELSE IF ~isStderr(pkt.datatype) THEN continues(chanState)
             ELSE IF ~getChan(pkt.remoteId).ok THEN exits("no channel", chans, chanState)
             ELSE IF getChan(pkt.remoteId).ch = 0 THEN exits("nil channel", chans, chanState)
             ELSE continues([chanState EXCEPT ![getChan(pkt.remoteId).ch].stderr =
                                                  @ \o pkt.payload])
    /\ UNCHANGED <<chans, out, fwdQueue, response>>
    /\ loopFrame

\* decode fails: an UnexpectedMessageError is printed and the loop goes on,
\* any other error leaves the loop.
LoopDecodeError ==
    /\ \E kind \in {"UnexpectedMessageError", "ParseError"} :
          /\ reads([type |-> "undecodable", err |-> kind])
          /\ IF kind = "UnexpectedMessageError" THEN continues(chanState)
             ELSE exits("decode", chans, chanState)
    /\ UNCHANGED <<chans, out, fwdQueue, response>>
    /\ loopFrame

PacketSizes ==
    {<<0, minPacketLength - 1>>, <<0, minPacketLength>>, twoTo31, <<32768, 1>>}

ChannelOpenMsgs ==
    [type : {"msgChannelOpen"}, ChanType : {"forwarded-tcpip", "x11"}, PeersId : {5},
     PeersWindow : {<<0, 2048>>}, MaxPacketSize : PacketSizes,
     TypeSpecificData : {<<NotAnIP, Originator>>, <<OtherListener, Originator>>,
                         <<Listener>>, <<Listener, Originator>>}]

\* case *channelOpenMsg
LoopChannelOpen ==
    /\ Len(chanState) < MaxOpens
    /\ chanMutex = 0
    /\ \E msg \in ChannelOpenMsgs :
          /\ reads(msg)
          /\ LET r == handleChanOpen(msg)
             IN  /\ out' = r.out
                 /\ chans' = r.chans
                 /\ fwdQueue' = r.fwdQueue
                 /\ continues(r.chanState)
    /\ UNCHANGED response
    /\ loopFrame

MailboxTypes ==
    {"msgChannelOpenConfirm", "msgChannelOpenFailure", "msgChannelSuccess",
     "msgChannelFailure", "msgChannelRequest"}

\* ch.msg <- msg on the channel cs[o].
deliver(cs, o, msg) ==
    IF cs[o].msgClosed > 0 THEN [cs EXCEPT ![o].sentAfterClose = TRUE]
    ELSE [cs EXCEPT ![o].msg = Append(@, msg)]

\* The five cases that hand the message to the channel's mailbox.
LoopChannelMsg ==
    /\ \E pkt \in [type : MailboxTypes, PeersId : PeerIds] :
          /\ reads(pkt)
          /\ IF ~getChan(pkt.PeersId).ok THEN exits("no channel", chans, chanState)
             ELSE IF getChan(pkt.PeersId).ch = 0 THEN exits("nil channel", chans, chanState)
             ELSE IF chanState[getChan(pkt.PeersId).ch].msgClosed > 0
             THEN exits("closed mailbox", chans,
                        deliver(chanState, getChan(pkt.PeersId).ch, pkt.type))
             ELSE continues(deliver(chanState, getChan(pkt.PeersId).ch, pkt.type))
    /\ UNCHANGED <<chans, out, fwdQueue, response>>
    /\ loopFrame

\* case *channelCloseMsg: ch.Close(), close(ch.msg), c.chanList.remove.
LoopChannelClose ==
    /\ chanMutex = 0
    /\ \E pkt \in [type : {"msgChannelClose"}, PeersId : PeerIds] :
          /\ reads(pkt)
          /\ IF ~getChan(pkt.PeersId).ok
             THEN exits("no channel", chans, chanState) /\ chans' = chans
             ELSE IF getChan(pkt.PeersId).ch = 0
             THEN exits("nil channel", chans, chanState) /\ chans' = chans
             ELSE /\ continues([chanState EXCEPT
                                   ![getChan(pkt.PeersId).ch].closeCalls = @ + 1,
                                   ![getChan(pkt.PeersId).ch].msgClosed = @ + 1])
                  /\ chans' = removeChan(chans, pkt.PeersId)
    /\ UNCHANGED <<out, fwdQueue, response>>
    /\ loopFrame

\* case *channelEOFMsg
LoopChannelEOF ==
    /\ \E pkt \in [type : {"msgChannelEOF"}, PeersId : PeerIds] :
          /\ reads(pkt)
          /\ IF ~getChan(pkt.PeersId).ok THEN exits("no channel", chans, chanState)
             ELSE IF getChan(pkt.PeersId).ch = 0 THEN exits("nil channel", chans, chanState)
             ELSE continues([chanState EXCEPT ![getChan(pkt.PeersId).ch].eof = TRUE])
    /\ UNCHANGED <<chans, out, fwdQueue, response>>
    /\ loopFrame

\* case *windowAdjustMsg
LoopWindowAdjust ==
    /\ \E pkt \in [type : {"msgChannelWindowAdjust"}, PeersId : PeerIds,
                   AdditionalBytes : {u32Zero, <<0, 2048>>, u32Max}] :
          /\ reads(pkt)
          /\ IF ~getChan(pkt.PeersId).ok THEN exits("no channel", chans, chanState)
             ELSE IF getChan(pkt.PeersId).ch = 0 THEN exits("nil channel", chans, chanState)
             ELSE LET o == getChan(pkt.PeersId).ch
                      w == chanState[o].remoteWin
                  IN  IF pkt.AdditionalBytes = u32Zero THEN continues(chanState)
                      ELSE IF addWraps(w, pkt.AdditionalBytes)
                      THEN exits("window overflow", chans, chanState)
                      ELSE continues([chanState EXCEPT
                                         ![o].remoteWin = u32Add(w, pkt.AdditionalBytes)])
    /\ UNCHANGED <<chans, out, fwdQueue, response>>
    /\ loopFrame

\* case *globalRequestMsg
LoopGlobalRequest ==
    /\ \E pkt \in [type : {"msgGlobalRequest"}, WantReply : BOOLEAN] :
          /\ reads(pkt)
          /\ out' = IF pkt.WantReply THEN Append(out, [type |-> "msgRequestFailure"]) ELSE out
    /\ continues(chanState)
    /\ UNCHANGED <<chans, fwdQueue, response>>
    /\ loopFrame

\* case *globalRequestSuccessMsg, *globalRequestFailureMsg: the send on
\* c.globalRequest.response, which blocks while the channel is full.  A reply
\* carries the number of requests that were on the transport when it was read.
LoopGlobalReply ==
    /\ \E kind \in {"msgRequestSuccess", "msgRequestFailure"} :
          /\ reads([type |-> kind, at |-> grWritten])
          /\ IF Len(response) < responseCap
             THEN /\ response' = Append(response, [type |-> kind, at |-> grWritten])
                  /\ loopPc' = "run"
             ELSE /\ response' = response
                  /\ loopPc' = "blocked"
    /\ UNCHANGED <<chans, chanState, out, fwdQueue, exitReason, closed, fwdClosed>>
    /\ loopFrame

\* The blocked send goes through once a caller has emptied the channel.
LoopReplySent ==
    /\ loopPc = "blocked"
    /\ Len(response) < responseCap
    /\ response' = Append(response, lastPkt)
    /\ loopPc' = "run"
    /\ UNCHANGED <<chans, chanState, out, fwdQueue, exitReason, closed, fwdClosed,
                   lastPkt, nRead>>
    /\ loopFrame

\* case *disconnectMsg
LoopDisconnect ==
    /\ reads([type |-> "msgDisconnect"])
    /\ exits("disconnect", chans, chanState)
    /\ UNCHANGED <<chans, out, fwdQueue, response>>
    /\ loopFrame

\* default: the message is printed as unhandled.
LoopUnhandled ==
    /\ reads([type |-> "msgIgnore"])
    /\ continues(chanState)
    /\ UNCHANGED <<chans, out, fwdQueue, response>>
    /\ loopFrame

\* What sendGlobalRequest does not touch.
grFrame == UNCHANGED <<hsVars, negVars, winVars, codecVars, chanVars, loopPc, exitReason,
                       lastPkt, nRead, closed, fwdQueue, fwdClosed>>

\* Mutant of globalRequestLock: the mutex is taken without waiting for it.
globalRequestLockNoWait(t) == grMutex' = t

\* c.globalRequest.Lock() by task t.
globalRequestLock(t) == grMutex = 0 /\ grMutex' = t

\* sendGlobalRequest calls begun so far.
grCalls == Len(grLog) + Cardinality({t \in Tasks : grPc[t].at # "idle"})

\* Task t calls sendGlobalRequest and takes the mutex.
SendGlobalRequestLock(t) ==
    /\ grPc[t].at = "idle"
    /\ grCalls < MaxRequests
    /\ globalRequestLock(t)
    /\ grPc' = [grPc EXCEPT ![t] = [at |-> "write"]]
    /\ UNCHANGED <<out, response, grLog>>
    /\ grFrame

\* writePacket of the request: it fails and the call returns the error, or
\* the request is on the transport and the call goes on to wait.
SendGlobalRequestWrite(t) ==
    /\ grPc[t].at = "write"
    /\ \/ /\ grLog' = Append(grLog, [task |-> t, req |-> 0, reply |-> <<>>,
                                     ret |-> "write error"])
          /\ grPc' = [grPc EXCEPT ![t] = [at |-> "idle"]]
          /\ grMutex' = 0
          /\ out' = out
       \/ /\ out' = Append(out, [type |-> "msgGlobalRequest", task |-> t])
          /\ grPc' = [grPc EXCEPT ![t] = [at |-> "wait", req |-> grWritten + 1]]
          /\ UNCHANGED <<grLog, grMutex>>
    /\ UNCHANGED response
    /\ grFrame

\* r := <-c.globalRequest.response, the result, and the deferred Unlock.
SendGlobalRequestReceive(t) ==
    /\ grPc[t].at = "wait"
    /\ response # <<>>
    /\ response' = Tail(response)
    /\ grLog' = Append(grLog, [task |-> t, req |-> grPc[t].req, reply |-> <<Head(response)>>,
                               ret |-> IF Head(response).type = "msgRequestSuccess"
                                       THEN "success" ELSE "request failed"])
    /\ grPc' = [grPc EXCEPT ![t] = [at |-> "idle"]]
    /\ grMutex' = 0
    /\ out' = out
    /\ grFrame

\* The connection loop with the channels: every case of the switch but the
\* replies to global requests, which touch nothing but the reply channel.
NextMux ==
    \/ OpenChannel
    \/ LoopReadError \/ LoopChannelData \/ LoopExtendedData \/ LoopDecodeError
    \/ LoopChannelOpen \/ LoopChannelMsg \/ LoopChannelClose \/ LoopChannelEOF
    \/ LoopWindowAdjust \/ LoopGlobalRequest \/ LoopDisconnect \/ LoopUnhandled
InitMux == HsIdle /\ NegIdle /\ WinIdle /\ ChanInit /\ MuxInit /\ CodecIdle
SpecMux == InitMux /\ [][NextMux]_vars

\* The global requests: the tasks calling sendGlobalRequest, and of the
\* connection loop the cases that write to the transport, fill the reply
\* channel or end the loop.
NextGlobal ==
    \/ \E t \in Tasks : SendGlobalRequestLock(t)
    \/ \E t \in Tasks : SendGlobalRequestWrite(t)
    \/ \E t \in Tasks : SendGlobalRequestReceive(t)
    \/ LoopGlobalRequest \/ LoopGlobalReply \/ LoopReplySent \/ LoopDisconnect
SpecGlobal == InitMux /\ [][NextGlobal]_vars

---------------------------------------------------------------------------
(* Properties of the global requests                                       *)

\* The tasks whose request is on the transport and whose reply is not consumed.
inFlight == {t \in Tasks : grPc[t].at = "wait"}

\* C11: at most one global request is in flight: the caller between its write
\* and its return holds the mutex, and no request is written to the transport
\* while another caller still waits for its reply.
C11_OneInFlight ==
    /\ [](/\ Cardinality(inFlight) <= 1
          /\ \A t \in Tasks : grPc[t].at # "idle" => grMutex = t)
    /\ [][grWritten' > grWritten => inFlight = {}]_vars

\* The first caller has consumed its reply and the second one's request is out.
C11_Witness ==
    /\ Len(grLog) = 1
    /\ grLog[1].task = 1
    /\ grLog[1].reply # <<>>
    /\ grPc[2].at = "wait"
    /\ grPc[2].req = 2
    /\ grMutex = 2

\* C12: every call that returns a reply returns one the peer sent after the
\* call's own request was written, as success for a success message and as
\* request failed for anything else.
C12_Pairing ==
    \A k \in DOMAIN grLog :
        grLog[k].reply # <<>> =>
            /\ grLog[k].reply[1].at >= grLog[k].req
            /\ grLog[k].ret = IF grLog[k].reply[1].type = "msgRequestSuccess"
                              THEN "success" ELSE "request failed"

---------------------------------------------------------------------------
(* Properties of the connection loop                                       *)

\* mainLoop leaves its loop in this step.
loopExits == loopPc # "exited" /\ loopPc' = "exited"

\* mainLoop handles a packet in this step.
loopStep == nRead' = nRead + 1

\* C13: when mainLoop leaves its loop, for whatever reason, the transport is
\* closed, every channel in the table is closed together with its mailbox,
\* and the forward list is closed.
C13_Teardown ==
    /\ [](loopPc = "exited" => closed /\ fwdClosed)
    /\ [][loopExits =>
            /\ closed'
            /\ fwdClosed'
            /\ \A i \in DOMAIN chans' :
                  chans'[i] # 0 => /\ chanState'[chans'[i]].closeCalls >= 1
                                   /\ chanState'[chans'[i]].msgClosed >= 1]_vars

\* A window overflow ended the loop with two channels in the table.
C13_Witness ==
    /\ loopPc = "exited"
    /\ exitReason = "window overflow"
    /\ Len(chans) = 2
    /\ \A i \in DOMAIN chans : chans[i] # 0 /\ chanState[chans[i]].msgClosed = 1
    /\ closed
    /\ fwdClosed

\* C14: no mailbox is closed twice or sent to after it was closed, a channel
\* closed by an inbound channel-close is out of the table, and once the loop
\* has been torn down every channel's mailbox has been closed exactly once.
C14_MailboxClosedOnce ==
    /\ [](\A o \in DOMAIN chanState :
            /\ chanState[o].msgClosed <= 1
            /\ ~chanState[o].sentAfterClose
            /\ (chanState[o].msgClosed = 1 /\ loopPc # "exited")
                  => \A i \in DOMAIN chans : chans[i] # o)
    /\ [][loopExits => \A o \in DOMAIN chanState' : chanState'[o].msgClosed = 1]_vars

\* One channel was closed by the peer and removed, the other by the teardown.
C14_Witness ==
    /\ loopPc = "exited"
    /\ Len(chanState) = 2
    /\ chans = <<0, 2>>
    /\ lastPkt.type = "msgDisconnect"
    /\ chanState[1].msgClosed = 1
    /\ chanState[2].msgClosed = 1

\* The channel-open read in this step asks for a forward from an address
\* that parses and is not in the forward list.
unregisteredOpen ==
    /\ loopStep
    /\ lastPkt'.type = "msgChannelOpen"
    /\ lastPkt'.ChanType = "forwarded-tcpip"
    /\ lastPkt'.TypeSpecificData # <<>>
    /\ lastPkt'.TypeSpecificData[1].ip \in ValidIPs
    /\ lastPkt'.TypeSpecificData[1] # Listener

\* C16: a forwarded-tcpip open for an address that is not in the forward list
\* is answered with exactly one channel-open-failure of reason
\* ConnectionFailed, allocates no channel, and the loop goes on.
C16_ForwardRejection ==
    [][unregisteredOpen =>
          /\ out' = Append(out, channelOpenFailureMsg(lastPkt'.PeersId, ConnectionFailed))
          /\ chans' = chans
          /\ chanState' = chanState
          /\ fwdQueue' = fwdQueue
          /\ loopPc' = "run"]_vars

\* The channel-open read in this step has a max_packet_size below the minimum
\* packet length or of 2^31 and more.
impossibleOpen ==
    /\ loopStep
    /\ lastPkt'.type = "msgChannelOpen"
    /\ \/ u32Less(lastPkt'.MaxPacketSize, <<0, minPacketLength>>)
       \/ ~u32Less(lastPkt'.MaxPacketSize, twoTo31)

\* C17: a channel-open with such a max_packet_size is answered with
\* channel-open-failure and nothing else: no confirm, no channel allocated,
\* nothing put on a forward queue.
C17_MaxPacketSize ==
    [][impossibleOpen =>
          /\ Len(out') > Len(out)
          /\ SubSeq(out', 1, Len(out)) = out
          /\ \A i \in (Len(out) + 1) .. Len(out') : out'[i].type = "msgChannelOpenFailure"
          /\ chans' = chans
          /\ chanState' = chanState
          /\ fwdQueue' = fwdQueue]_vars

\* The extended data read in this step has a data type other than 1.
rogueExtendedData ==
    /\ loopStep
    /\ lastPkt'.type = "msgChannelExtendedData"
    /\ lastPkt'.datatype # 1

\* C18: extended data of a data type other than 1 leaves the stdout and the
\* stderr buffer of every channel as they were, whatever id it names; when
\* it is well-formed nothing else changes either and the loop goes on.
C18_RogueExtendedData ==
    [][rogueExtendedData =>
          /\ \A o \in DOMAIN chanState :
                /\ chanState'[o].stderr = chanState[o].stderr
                /\ chanState'[o].stdout = chanState[o].stdout
          /\ (~lastPkt'.short /\ lastPkt'.length = Len(lastPkt'.payload))
                => /\ chanState' = chanState
                   /\ chans' = chans
                   /\ out' = out
                   /\ loopPc' = "run"]_vars

\* Data type 2 for a channel whose stderr buffer already holds data.
C18_Witness ==
    /\ nRead = 2
    /\ lastPkt.type = "msgChannelExtendedData"
    /\ lastPkt.datatype = 2
    /\ ~lastPkt.short
    /\ lastPkt.length = 1
    /\ lastPkt.remoteId = 0
    /\ chans # <<>>
    /\ chans[1] # 0
    /\ chanState[chans[1]].stderr = <<7>>
    /\ loopPc = "run"

---------------------------------------------------------------------------
(* The certificate codec (certs.go).  A byte is a number in 0 .. 255 and a  *)
(* byte string a sequence of them.  A marshaller is modelled by the bytes  *)
(* it writes, a parser by the record <<out, rest, ok>> it returns.         *)

\* Names in one list, and tuples in one list.
MaxNames == 2

\* marshalUint32: four bytes, big-endian.
marshalUint32(n) ==
    <<n \div 16777216, (n \div 65536) % 256, (n \div 256) % 256, n % 256>>

\* parseUint32: the value as the pair <<high 16 bits, low 16 bits>>.
parseUint32(in) ==
    IF Len(in) < 4 THEN [out |-> u32Zero, rest |-> <<>>, ok |-> FALSE]
    ELSE [out |-> <<in[1] * 256 + in[2], in[3] * 256 + in[4]>>,
          rest |-> SubSeq(in, 5, Len(in)), ok |-> TRUE]

\* parseUint64: eight bytes, kept as they are.
parseUint64(in) ==
    IF Len(in) < 8 THEN [out |-> <<>>, rest |-> <<>>, ok |-> FALSE]
    ELSE [out |-> SubSeq(in, 1, 8), rest |-> SubSeq(in, 9, Len(in)), ok |-> TRUE]

\* stringLength and marshalString: a four byte length, then the bytes.
stringLength(n) == 4 + n
marshalString(str) == marshalUint32(Len(str)) \o str

\* parseString: fails when the length prefix or the bytes it announces are
\* not all there.
parseString(in) ==
    IF Len(in) < 4 THEN [out |-> <<>>, rest |-> <<>>, ok |-> FALSE]
    ELSE LET n == parseUint32(in).out
         IN  IF n[1] > 0 \/ n[2] > Len(in) - 4
             THEN [out |-> <<>>, rest |-> <<>>, ok |-> FALSE]
             ELSE [out |-> SubSeq(in, 5, 4 + n[2]),
                   rest |-> SubSeq(in, 5 + n[2], Len(in)), ok |-> TRUE]

RECURSIVE namesLength(_)
namesLength(namelist) ==
    IF namelist = <<>> THEN 0 ELSE 4 + Len(Head(namelist)) + namesLength(Tail(namelist))

RECURSIVE namesLengthNoPrefix(_)
namesLengthNoPrefix(namelist) ==
    IF namelist = <<>> THEN 0 ELSE Len(Head(namelist)) + namesLengthNoPrefix(Tail(namelist))

\* Mutant of lengthPrefixedNameListLength: the length prefix of each name is
\* left out of the sum.
lengthPrefixedNameListLengthNoPrefix(namelist) == 4 + namesLengthNoPrefix(namelist)

lengthPrefixedNameListLength(namelist) == 4 + namesLength(namelist)

RECURSIVE marshalNames(_)
marshalNames(namelist) ==
    IF namelist = <<>> THEN <<>>
    ELSE marshalString(Head(namelist)) \o marshalNames(Tail(namelist))

\* Mutant of marshalLengthPrefixedNameList: the outer length counts its own
\* four bytes.
marshalLengthPrefixedNameListWhole(namelist) ==
    marshalUint32(lengthPrefixedNameListLength(namelist)) \o marshalNames(namelist)

marshalLengthPrefixedNameList(namelist) ==
    marshalUint32(lengthPrefixedNameListLength(namelist) - 4) \o marshalNames(namelist)

RECURSIVE parseNames(_, _)
\* The loop of parseLengthPrefixedNameList over what is left of the list.
parseNames(list, acc) ==
    IF Len(list) = 0 THEN [out |-> acc, ok |-> TRUE]
    ELSE LET next == parseString(list)
         IN  IF ~next.ok THEN [out |-> <<>>, ok |-> FALSE]
             ELSE parseNames(next.rest, Append(acc, next.out))

parseLengthPrefixedNameList(in) ==
    LET list == parseString(in)
        names == parseNames(list.out, <<>>)
    IN  IF ~list.ok THEN [out |-> <<>>, rest |-> list.rest, ok |-> FALSE]
        ELSE IF ~names.ok THEN [out |-> <<>>, rest |-> <<>>, ok |-> FALSE]
        ELSE [out |-> names.out, rest |-> list.rest, ok |-> TRUE]

RECURSIVE tuplesLength(_)
tuplesLength(tupleList) ==
    IF tupleList = <<>> THEN 0
    ELSE 4 + Len(Head(tupleList).Name) + 4 + Len(Head(tupleList).Data)
         + tuplesLength(Tail(tupleList))

tupleListLength(tupleList) == 4 + tuplesLength(tupleList)

RECURSIVE marshalTuples(_)
marshalTuples(tupleList) ==
    IF tupleList = <<>> THEN <<>>
    ELSE marshalString(Head(tupleList).Name) \o marshalString(Head(tupleList).Data)
         \o marshalTuples(Tail(tupleList))

marshalTupleList(tupleList) ==
    marshalUint32(tupleListLength(tupleList) - 4) \o marshalTuples(tupleList)

RECURSIVE parseTuples(_, _)
\* The loop of parseTupleList over what is left of the list.
parseTuples(list, acc) ==
    IF Len(list) = 0 THEN [out |-> acc, ok |-> TRUE]
    ELSE LET name == parseString(list)
             data == parseString(name.rest)
         IN  IF ~name.ok THEN [out |-> <<>>, ok |-> FALSE]
             ELSE IF ~data.ok THEN [out |-> <<>>, ok |-> FALSE]
             ELSE parseTuples(data.rest, Append(acc, [Name |-> name.out, Data |-> data.out]))

parseTupleList(in) ==
    LET list == parseString(in)
        tuples == parseTuples(list.out, <<>>)
    IN  IF ~list.ok THEN [out |-> <<>>, rest |-> list.rest, ok |-> FALSE]
        ELSE IF ~tuples.ok THEN [out |-> <<>>, rest |-> <<>>, ok |-> FALSE]
        ELSE [out |-> tuples.out, rest |-> list.rest, ok |-> TRUE]

signatureLength(sig) == 4 + stringLength(Len(sig.Format)) + stringLength(Len(sig.Blob))

marshalSignature(sig) ==
    marshalUint32(signatureLength(sig) - 4) \o marshalString(sig.Format)
    \o marshalString(sig.Blob)

parseSignatureBody(in) ==
    LET format == parseString(in)
        blob == parseString(format.rest)
    IN  IF ~format.ok THEN [out |-> <<>>, rest |-> <<>>, ok |-> FALSE]
        ELSE IF ~blob.ok
        THEN [out |-> <<[Format |-> format.out, Blob |-> <<>>]>>, rest |-> <<>>, ok |-> FALSE]
        ELSE [out |-> <<[Format |-> format.out, Blob |-> blob.out]>>,
              rest |-> blob.rest, ok |-> TRUE]

\* parseSignature: what follows the signature in the input is dropped; the
\* rest returned is what follows the blob inside the signature.
parseSignature(in) ==
    LET sigBytes == parseString(in)
    IN  IF ~sigBytes.ok THEN [out |-> <<>>, rest |-> sigBytes.rest, ok |-> FALSE]
        ELSE parseSignatureBody(sigBytes.out)

\* "ssh-rsa" and "ssh-dss"
KeyAlgoRSA == <<115, 115, 104, 45, 114, 115, 97>>
KeyAlgoDSA == <<115, 115, 104, 45, 100, 115, 115>>
UserCert == 1
HostCert == 2

\* A public key on the wire: the algorithm name, then the key's blob; for
\* ssh-rsa the blob is e and n.
MarshalPublicKey(key) ==
    marshalString(key.algo) \o marshalString(key.e) \o marshalString(key.n)

ParsePublicKey(in) ==
    LET algo == parseString(in)
        e == parseString(algo.rest)
        n == parseString(e.rest)
    IN  IF ~algo.ok \/ algo.out # KeyAlgoRSA \/ ~e.ok \/ ~n.ok
        THEN [out |-> <<>>, rest |-> <<>>, ok |-> FALSE]
        ELSE [out |-> <<[algo |-> algo.out, e |-> e.out, n |-> n.out]>>,
              rest |-> n.rest, ok |-> TRUE]

\* OpenSSHCertV01.Marshal
MarshalCert(cert) ==
    marshalString(cert.Nonce)
    \o MarshalPublicKey(cert.Key)
    \o cert.Serial
    \o marshalUint32(cert.Type)
    \o marshalString(cert.KeyId)
    \o marshalLengthPrefixedNameList(cert.ValidPrincipals)
    \o cert.ValidAfter
    \o cert.ValidBefore
    \o marshalTupleList(cert.CriticalOptions)
    \o marshalTupleList(cert.Extensions)
    \o marshalString(cert.Reserved)
    \o marshalString(MarshalPublicKey(cert.SignatureKey))
    \o marshalSignature(cert.Signature)

\* What a bare return of parseOpenSSHCertV01 gives: out and rest are still
\* nil, ok is whatever the last assignment left in it.
certReturn(ok) == [out |-> <<>>, rest |-> <<>>, ok |-> ok]

\* parseOpenSSHCertV01, field by field.
parseOpenSSHCertV01(in, algo) ==
    LET nonce == parseString(in)
        key == ParsePublicKey(nonce.rest)
        serial == parseUint64(key.rest)
        type == parseUint32(serial.rest)
        keyId == parseString(type.rest)
        principals == parseLengthPrefixedNameList(keyId.rest)
        va == parseUint64(principals.rest)
        vb == parseUint64(va.rest)
        options == parseTupleList(vb.rest)
        extensions == parseTupleList(options.rest)
        reserved == parseString(extensions.rest)
        sigKey == parseString(reserved.rest)
        signatureKey == ParsePublicKey(sigKey.out)
        sig == parseSignature(sigKey.rest)
    IN  IF ~nonce.ok THEN certReturn(nonce.ok)
        ELSE IF ~key.ok THEN certReturn(key.ok)
        ELSE IF key.out[1].algo # algo THEN certReturn(FALSE)
        ELSE IF ~serial.ok THEN certReturn(serial.ok)
        ELSE IF ~type.ok \/ (type.out # <<0, UserCert>> /\ type.out # <<0, HostCert>>)
             THEN certReturn(type.ok)
        ELSE IF ~keyId.ok THEN certReturn(keyId.ok)
        ELSE IF ~principals.ok THEN certReturn(principals.ok)
        ELSE IF ~va.ok THEN certReturn(va.ok)
        ELSE IF ~vb.ok THEN certReturn(vb.ok)
        ELSE IF ~options.ok THEN certReturn(options.ok)
        ELSE IF ~extensions.ok THEN certReturn(extensions.ok)
        ELSE IF ~reserved.ok THEN certReturn(reserved.ok)
        ELSE IF ~sigKey.ok THEN certReturn(sigKey.ok)
        ELSE IF ~signatureKey.ok THEN certReturn(signatureKey.ok)
        ELSE IF ~sig.ok THEN certReturn(sig.ok)
        ELSE [out |-> <<[Nonce |-> nonce.out, Key |-> key.out[1], Serial |-> serial.out,
                         Type |-> type.out[2], KeyId |-> keyId.out,
                         ValidPrincipals |-> principals.out,
                         ValidAfter |-> va.out, ValidBefore |-> vb.out,
                         CriticalOptions |-> options.out, Extensions |-> extensions.out,
                         Reserved |-> reserved.out, SignatureKey |-> signatureKey.out[1],
                         Signature |-> sig.out[1]]>>,
              rest |-> sig.rest, ok |-> TRUE]

\* Names: empty, "a", "bc", and one whose bytes read as a length prefix.
Names == {<<>>, <<97>>, <<98, 99>>, <<0, 0, 0, 1>>}

RECURSIVE SeqsUpTo(_, _)
\* The sequences of at most n elements of S.
SeqsUpTo(S, n) ==
    IF n = 0 THEN {<<>>}
    ELSE SeqsUpTo(S, n - 1) \cup {Append(q, x) : q \in SeqsUpTo(S, n - 1), x \in S}

NameLists == SeqsUpTo(Names, MaxNames)
TupleLists == SeqsUpTo([Name : Names, Data : Names], MaxNames)

\* What may follow an encoded list in the input.
Trailers == {<<>>, <<0>>, <<0, 0, 0, 1, 97>>, <<255, 255, 255, 255>>}

rsaKey == [algo |-> KeyAlgoRSA, e |-> <<1, 0, 1>>, n |-> <<0, 193>>]
epoch == <<0, 0, 0, 0, 0, 0, 0, 0>>

\* Certificates that differ in their type and in their lists.
Certs ==
    [Nonce : {<<9>>}, Key : {rsaKey}, Serial : {<<0, 0, 0, 0, 0, 0, 0, 42>>},
     Type : {0, UserCert, HostCert, 3}, KeyId : {<<107>>},
     ValidPrincipals : {<<>>, <<<<97>>, <<98, 99>>>>},
     ValidAfter : {epoch}, ValidBefore : {<<0, 0, 0, 0, 255, 255, 255, 255>>},
     CriticalOptions : {<<>>, <<[Name |-> <<97>>, Data |-> <<>>]>>},
     Extensions : {<<>>}, Reserved : {<<>>}, SignatureKey : {rsaKey},
     Signature : {[Format |-> KeyAlgoRSA, Blob |-> <<1, 2>>]}]

CodecInit == codecCall = <<>> /\ codecRet = <<>>

codecFrame == UNCHANGED <<hsVars, negVars, winVars, chanVars, muxVars>>

\* A name list is marshalled, and parsed back with t following it.
CallNameList ==
    /\ codecCall = <<>>
    /\ \E namelist \in NameLists, t \in Trailers :
          /\ codecCall' = <<[fn |-> "nameList", list |-> namelist, trailer |-> t]>>
          /\ codecRet' = <<[bytes |-> marshalLengthPrefixedNameList(namelist),
                            length |-> lengthPrefixedNameListLength(namelist),
                            parsed |-> parseLengthPrefixedNameList(
                                           marshalLengthPrefixedNameList(namelist) \o t)]>>
    /\ codecFrame

\* A tuple list is marshalled, and parsed back with t following it.
CallTupleList ==
    /\ codecCall = <<>>
    /\ \E tupleList \in TupleLists, t \in Trailers :
          /\ codecCall' = <<[fn |-> "tupleList", list |-> tupleList, trailer |-> t]>>
          /\ codecRet' = <<[bytes |-> marshalTupleList(tupleList),
                            length |-> tupleListLength(tupleList),
                            parsed |-> parseTupleList(marshalTupleList(tupleList) \o t)]>>
    /\ codecFrame

\* parseOpenSSHCertV01 on the first cut bytes of a marshalled certificate.
CallParseCert ==
    /\ codecCall = <<>>
    /\ \E cert \in Certs, algo \in {KeyAlgoRSA, KeyAlgoDSA} :
          \E cut \in 0 .. Len(MarshalCert(cert)) :
             /\ codecCall' = <<[fn |-> "parseCert", cert |-> cert, algo |-> algo,
                                cut |-> cut, whole |-> (cut = Len(MarshalCert(cert)))]>>
             /\ codecRet' = <<parseOpenSSHCertV01(SubSeq(MarshalCert(cert), 1, cut), algo)>>
    /\ codecFrame

CodecReturn ==
    /\ codecCall # <<>>
    /\ codecCall' = <<>>
    /\ codecRet' = <<>>
    /\ codecFrame

NextCodec == CallNameList \/ CallTupleList \/ CallParseCert \/ CodecReturn
InitCodec == HsIdle /\ NegIdle /\ WinIdle /\ ChanIdle /\ MuxIdle /\ CodecInit
SpecCodec == InitCodec /\ [][NextCodec]_vars

certCall == codecCall # <<>> /\ codecCall[1].fn = "parseCert"
listCall == codecCall # <<>> /\ codecCall[1].fn \in {"nameList", "tupleList"}

C20_ListRoundTrip ==
    listCall =>
        /\ codecRet[1].parsed = [out |-> codecCall[1].list, rest |-> codecCall[1].trailer,
                                 ok |-> TRUE]
        /\ Len(codecRet[1].bytes) = codecRet[1].length

\* Two tuples, one with empty data, followed by bytes that read as a string.
C20_Witness ==
    /\ codecCall # <<>>
    /\ codecCall[1].fn = "tupleList"
    /\ codecCall[1].list = <<[Name |-> <<97>>, Data |-> <<>>],
                             [Name |-> <<0, 0, 0, 1>>, Data |-> <<98, 99>>]>>
    /\ codecCall[1].trailer = <<0, 0, 0, 1, 97>>
    /\ codecRet[1].parsed.ok
    /\ codecRet[1].length = 27

nameListCall == codecCall # <<>> /\ codecCall[1].fn = "nameList"

\* C21 as stated: the empty name list is encoded as four zero bytes, and
\* ["a", "bc"] as 00 00 00 0d 00 00 00 01 'a' 00 00 00 02 'b' 'c', an outer
\* length of 13.
C21_Original ==
    nameListCall =>
        /\ codecCall[1].list = <<>> => codecRet[1].bytes = <<0, 0, 0, 0>>
        /\ codecCall[1].list = <<<<97>>, <<98, 99>>>> =>
               codecRet[1].bytes = <<0, 0, 0, 13, 0, 0, 0, 1, 97, 0, 0, 0, 2, 98, 99>>

\* C21: the empty name list is encoded as four zero bytes, and ["a", "bc"]
\* as 00 00 00 0b 00 00 00 01 'a' 00 00 00 02 'b' 'c': the outer length is
\* 11, the number of bytes that follow it.
C21_NameListBytes ==
    nameListCall =>
        /\ codecCall[1].list = <<>> => codecRet[1].bytes = <<0, 0, 0, 0>>
        /\ codecCall[1].list = <<<<97>>, <<98, 99>>>> =>
               codecRet[1].bytes = <<0, 0, 0, 11, 0, 0, 0, 1, 97, 0, 0, 0, 2, 98, 99>>

\* ["a", "bc"] has been encoded: fifteen bytes, the outer length and eleven
\* more.
C21_Witness ==
    /\ nameListCall
    /\ codecCall[1].list = <<<<97>>, <<98, 99>>>>
    /\ codecCall[1].trailer = <<>>
    /\ Len(codecRet[1].bytes) = 15
    /\ codecRet[1].length = 15

---------------------------------------------------------------------------
(* Channel data, window adjustments and accepted forwards in mainLoop.     *)

\* The channel data read in this step has the nine bytes of its header.
channelDataRead ==
    /\ loopStep
    /\ lastPkt'.type = "msgChannelData"
    /\ ~lastPkt'.short

\* C22: channel data whose length field differs from the number of payload
\* bytes that follow it appends nothing to any channel buffer and ends the
\* loop, whose teardown runs; when the length matches and the id names a
\* channel in the table, the payload is appended to that channel's stdout
\* buffer, nothing else changes and the loop goes on.
C22_ChannelData ==
    [][channelDataRead =>
          IF lastPkt'.length # Len(lastPkt'.payload)
          THEN /\ loopExits
               /\ closed'
               /\ fwdClosed'
               /\ chanState' = closeAll(chans, chanState)
               /\ \A o \in DOMAIN chanState :
                     /\ chanState'[o].stdout = chanState[o].stdout
                     /\ chanState'[o].stderr = chanState[o].stderr
          ELSE (lastPkt'.remoteId + 1) \in inTable =>
                  /\ chanState' = [chanState EXCEPT
                                      ![chans[lastPkt'.remoteId + 1]].stdout =
                                          @ \o lastPkt'.payload]
                  /\ chans' = chans
                  /\ loopPc' = "run"]_vars

\* One payload was appended to channel 0, then a packet whose length field
\* is 0 for one byte of payload ended the loop and left the buffer alone.
C22_Witness ==
    /\ nRead = 2
    /\ lastPkt.type = "msgChannelData"
    /\ ~lastPkt.short
    /\ lastPkt.length = 0
    /\ lastPkt.payload = <<7>>
    /\ lastPkt.remoteId = 0
    /\ chans # <<>>
    /\ chans[1] # 0
    /\ chanState[chans[1]].stdout = <<7>>
    /\ chanState[chans[1]].msgClosed = 1
    /\ loopPc = "exited"
    /\ exitReason = "length"
    /\ closed

\* The window adjustment read in this step names a channel in the table.
windowAdjustRead ==
    /\ loopStep
    /\ lastPkt'.type = "msgChannelWindowAdjust"
    /\ (lastPkt'.PeersId + 1) \in inTable

\* C23: a window adjustment whose delta would take the channel's send window
\* past 2^32 - 1 leaves that window as it was and ends the loop, whose
\* teardown runs; one that does not adds exactly the delta to the send
\* window, changes nothing else, and the loop goes on.
C23_WindowAdjust ==
    [][windowAdjustRead =>
          LET o == chans[lastPkt'.PeersId + 1]
              w == chanState[o].remoteWin
              delta == lastPkt'.AdditionalBytes
          IN  IF fits(w, delta)
              THEN /\ ~u32Less(chanState'[o].remoteWin, w)
                   /\ u32Sub(chanState'[o].remoteWin, w) = delta
                   /\ chanState' = [chanState EXCEPT ![o].remoteWin = chanState'[o].remoteWin]
                   /\ chans' = chans
                   /\ loopPc' = "run"
              ELSE /\ chanState'[o].remoteWin = w
                   /\ loopExits
                   /\ closed'
                   /\ fwdClosed'
                   /\ chanState' = closeAll(chans, chanState)]_vars

\* The send window of channel 0 was raised to 2^32 - 1 by one adjustment;
\* the next one, of 2048, ended the loop and left the window where it was.
C23_Witness ==
    /\ nRead = 2
    /\ lastPkt.type = "msgChannelWindowAdjust"
    /\ lastPkt.PeersId = 0
    /\ lastPkt.AdditionalBytes = <<0, 2048>>
    /\ chans # <<>>
    /\ chans[1] # 0
    /\ chanState[chans[1]].remoteWin = u32Max
    /\ loopPc = "exited"
    /\ exitReason = "window overflow"

---------------------------------------------------------------------------
(* The guessed key exchange packet of the handshake                        *)

\* The peer announced a guessed packet and guessed another key exchange
\* than the negotiated one.
wrongGuess ==
    /\ serverKexInit # <<>>
    /\ serverKexInit[1].FirstKexFollows
    /\ kexAlgo # serverKexInit[1].KexAlgos[1]

\* Packets read since the peer's KexInit.
readSinceKexInit == Len(rx) - 1

\* C24: after the negotiation the client reads and drops exactly one packet
\* before the key exchange if and only if the peer's KexInit has
\* first_kex_follows set and the negotiated key exchange algorithm is not the
\* first of the peer's list; nothing of the dropped packet is kept, and in
\* every other case the next packet read is the one taken for the key
\* exchange reply.
C24_GuessDiscarded ==
    /\ [][(pc = "readKexInit" /\ pc' # "handshakeErr") =>
             /\ wrongGuess' => pc' = "discardGuess"
             /\ ~wrongGuess' => pc' = "kex"]_vars
    /\ [][(pc = "discardGuess" /\ pc' # "handshakeErr") =>
             /\ Len(rx') = Len(rx) + 1
             /\ pc' = "kex"
             /\ UNCHANGED <<wire, magics, serverKexInit, kexAlgo, hostKeyAlgo, transport,
                            kex, result>>]_vars
    /\ [](pc \in {"kex", "kexReadReply"} =>
             readSinceKexInit = IF wrongGuess THEN 1 ELSE 0)
    /\ [](pc = "kexCompute" =>
             /\ readSinceKexInit = IF wrongGuess THEN 2 ELSE 1
             /\ rx[Len(rx)] = IF isECDH(kexAlgo) THEN "msgKexECDHReply" ELSE "msgKexDHReply"
             /\ kex[1].reply # <<>>)

\* The peer guessed ECDH, group 14 was negotiated: the guessed packet was
\* dropped and the packet after it taken for the reply.
C24_Witness ==
    /\ pc = "kexCompute"
    /\ wrongGuess
    /\ kexAlgo = kexAlgoDH14SHA1
    /\ serverKexInit[1].KexAlgos[1] = kexAlgoECDH256
    /\ rx = <<"msgKexInit", "msgKexECDHReply", "msgKexDHReply">>
    /\ kex[1].reply # <<>>

\* The channel-open read in this step asks for a forward from the registered
\* listener, and both its addresses parse.
acceptedOpen ==
    /\ loopStep
    /\ lastPkt'.type = "msgChannelOpen"
    /\ lastPkt'.ChanType = "forwarded-tcpip"
    /\ Len(lastPkt'.TypeSpecificData) = 2
    /\ lastPkt'.TypeSpecificData[1] = Listener
    /\ lastPkt'.TypeSpecificData[2].ip \in ValidIPs

\* The packets written in this step.
written == {k \in DOMAIN out' : k > Len(out)}

\* C25: an accepted forwarded-tcpip open allocates one channel, in a slot
\* that was free, whose remote id, send window and max packet are the peer's
\* id, advertised window and advertised maximum; exactly one
\* channel-open-confirm is written, with the new local id, window 16384 and
\* max packet 32768; and the channel and the originator's address are put on
\* the listener's queue after that confirm was written.
C25_AcceptedForward ==
    [][acceptedOpen =>
          LET msg == lastPkt'
              o == Len(chanState) + 1
              confirms == {k \in written : out'[k].type = "msgChannelOpenConfirm"}
          IN  /\ SubSeq(out', 1, Len(out)) = out
              /\ DOMAIN chanState' = 1 .. o
              /\ \A k \in DOMAIN chanState : chanState'[k] = chanState[k]
              /\ chanState'[o].remoteId = msg.PeersId
              /\ chanState'[o].remoteWin = msg.PeersWindow
              /\ chanState'[o].maxPacket = msg.MaxPacketSize
              /\ \E i \in DOMAIN chans' :
                    /\ chans'[i] = o
                    /\ i \notin inTable
                    /\ chanState'[o].localId = i - 1
                    /\ \A j \in DOMAIN chans : j # i => chans'[j] = chans[j]
              /\ Cardinality(confirms) = 1
              /\ \A k \in confirms :
                    out'[k] = [type |-> "msgChannelOpenConfirm", PeersId |-> msg.PeersId,
                               MyId |-> chanState'[o].localId,
                               MyWindow |-> <<0, 16384>>, MaxPacketSize |-> <<0, 32768>>]
              /\ Len(fwdQueue') = Len(fwdQueue) + 1
              /\ SubSeq(fwdQueue', 1, Len(fwdQueue)) = fwdQueue
              /\ LET f == fwdQueue'[Len(fwdQueue')]
                 IN  /\ f.ch = o
                     /\ f.raddr = msg.TypeSpecificData[2]
                     /\ \A k \in confirms : k <= f.written
              /\ loopPc' = "run"]_vars

\* Two forwards were accepted one after the other: channels 0 and 1, two
\* confirms on the transport, two forwards on the queue.
C25_Witness ==
    /\ nRead = 2
    /\ lastPkt.type = "msgChannelOpen"
    /\ lastPkt.MaxPacketSize = <<0, minPacketLength>>
    /\ Len(fwdQueue) = 2
    /\ fwdQueue[2].ch = 2
    /\ fwdQueue[2].raddr = Originator
    /\ chans = <<1, 2>>
    /\ chanState[2].localId = 1
    /\ chanState[2].remoteId = 5
    /\ chanState[2].remoteWin = <<0, 2048>>
    /\ out = <<channelOpenConfirmMsg(5, 0), channelOpenConfirmMsg(5, 1)>>
    /\ loopPc = "run"

---------------------------------------------------------------------------
(* The send window under concurrent calls                                  *)

\* A reserve call returns in this step.
reserveReturns ==
    /\ Len(winLog') = Len(winLog) + 1
    /\ winLog'[Len(winLog')].op = "reserve"

\* C26: a reserve(request) call with request > 0 that finds the window at 0
\* does not return while the window stays 0: no reserve call returns from a
\* window of 0, and the waiting call stays where it is; with one reserver and
\* fair scheduling it returns once an add of more than 0 has succeeded, and
\* its grant is between 1 and the request.
C26_ReserveBlocks ==
    /\ [][reserveReturns => win # u32Zero]_vars
    /\ [][(waiting # <<>> /\ win = u32Zero /\ win' = u32Zero) => waiting' = waiting]_vars
    /\ [](\A i \in DOMAIN winLog :
             (winLog[i].op = "reserve" /\ winLog[i].arg # u32Zero) =>
                /\ winLog[i].ret # u32Zero
                /\ ~u32Less(winLog[i].arg, winLog[i].ret))
    /\ (waiting # <<>> /\ win # u32Zero) ~> (waiting = <<>>)

\* reserve(65536) slept on the window of 0, add(10) woke it, and it
\* returned 10.
C26_Witness ==
    /\ Len(winLog) = 2
    /\ winLog[1].op = "add"
    /\ winLog[1].arg = <<0, 10>>
    /\ winLog[2].op = "reserve"
    /\ winLog[2].slept
    /\ winLog[2].arg = <<1, 0>>
    /\ winLog[2].ret = <<0, 10>>
    /\ waiting = <<>>
    /\ win = u32Zero

\* a + b of two sums, not wrapped: the high half may pass 16 bits.
wideAdd(a, b) == <<a[1] + b[1] + ((a[2] + b[2]) \div Half), (a[2] + b[2]) % Half>>

RECURSIVE totalAdded(_)
\* The sum of the deltas of the adds of a log that succeeded.
totalAdded(log) ==
    IF log = <<>> THEN u32Zero
    ELSE LET last == log[Len(log)]
         IN  wideAdd(totalAdded(SubSeq(log, 1, Len(log) - 1)),
                     IF last.op = "add" /\ last.ok THEN last.arg ELSE u32Zero)

RECURSIVE totalGranted(_)
\* The sum of the grants that the reserve calls of a log returned.
totalGranted(log) ==
    IF log = <<>> THEN u32Zero
    ELSE LET last == log[Len(log)]
         IN  wideAdd(totalGranted(SubSeq(log, 1, Len(log) - 1)),
                     IF last.op = "reserve" THEN last.ret ELSE u32Zero)

\* C27: whatever the interleaving of add and reserve calls on a window that
\* starts at 0, the window is the sum of the deltas of the successful adds
\* less the sum of the grants, every grant is at most the request and at most
\* the window it was taken from, and the grants together never exceed the
\* deltas added.
C27_WindowAccounting ==
    /\ wideAdd(win, totalGranted(winLog)) = totalAdded(winLog)
    /\ \A i \in DOMAIN winLog :
          winLog[i].op = "reserve" =>
             /\ ~u32Less(winLog[i].arg, winLog[i].ret)
             /\ ~u32Less(winLog[i].before, winLog[i].ret)
    /\ ~u32Less(totalAdded(winLog), totalGranted(winLog))

\* Two reserve calls slept on the window of 0 and one add(10) woke both: the
\* second took 1, the first is awake and has still to take its grant.
C27_Witness ==
    /\ Len(winLog) = 2
    /\ winLog[1].op = "add"
    /\ winLog[1].arg = <<0, 10>>
    /\ winLog[2].op = "reserve"
    /\ winLog[2].slept
    /\ winLog[2].ret = <<0, 1>>
    /\ win = <<0, 9>>
    /\ Len(waiting) = 1
    /\ waiting[1].awake
    /\ waiting[1].request = u32Max

---------------------------------------------------------------------------
(* getChan and the slots that remove has cleared                           *)

\* C28: for every id, getChan(id) is ok if and only if a channel with that
\* local id is in the table, allocated and not removed since; so a message
\* for an id whose channel was closed and removed ends the loop as one for
\* an id past the end of the table does, and the loop never works on a
\* channel that is not there.
C28_GetChan ==
    /\ \A id \in 0 .. Len(chans) : getChan(id).ok <=> (id + 1) \in inTable
    /\ exitReason # "nil channel"

---------------------------------------------------------------------------
(* Global requests when the connection loop has ended                      *)

\* C29: every sendGlobalRequest call returns in the end: once mainLoop has
\* left its loop, a call that has written its request and waits for the
\* reply can take its next step and return, which frees the mutex for the
\* calls after it.
C29_CallerReleased ==
    \A t \in Tasks :
       (loopPc = "exited" /\ grPc[t].at = "wait") =>
           ENABLED SendGlobalRequestReceive(t)

====
